---- MODULE Spec2Model ----
(***************************************************************************)
(* A model of the v6 LSM storage engine of gtarraga/kv-store: the store    *)
(* facade (v6/v6.go), the memtable and its write-ahead log, the SSTable    *)
(* writer/reader (v6/sstable.go), the LSM manager with its manifest and    *)
(* the background merger (v6/merge.go).                                    *)
(*                                                                         *)
(* Byte strings ([]byte, string) are run-length encoded: a byte string is  *)
(* a sequence of runs <<byte, count>> with count >= 1 and no two adjacent  *)
(* runs of the same byte, so that equal byte strings are equal values and  *)
(* a 299-byte value is one run.                                            *)
(***************************************************************************)
EXTENDS Integers, Sequences, FiniteSets, TLC

\* ------------------------------------------------------------------------
\* Bounds of the model
\* ------------------------------------------------------------------------
\* Length of the large value a caller may Set (key of 1 byte + 299 bytes
\* reaches the flush threshold with a single Set).
BigLen == 299
\* Number of Set/Delete calls issued in one behaviour.
MaxSets == 5
\* The same, for a single caller.
SeqSets == 6
\* The same, on a store opened on a directory with two populated tiers.
MergeSets == 3
\* Number of concurrent caller goroutines.
NumSetters == 2
\* Number of process crashes followed by a restart.
MaxCrashes == 1
\* SSTables in the directory a store is bootstrapped from.
BootTables == 3
\* Largest id and WAL number in the manifests written step by step.
MaxManifestID == 1
MaxFrames == 2
\* Number of Insert/Delete calls made on one memtable.
MemOps == 4
FailSets == 3
FlushFailSets == 4
\* The same, on a store whose merger never runs.
StallSets == 15
\* The same, on a store whose rotations and flushes may fail.
WedgeSets == 3
\* The same, on a store that is closed and opened again.
CloseSets == 4
\* The same, for the callers whose return is awaited.
LiveSets == 4
\* Number of Insert/Delete calls made on one skip list.
SkipOps == 5
\* Size of the key range flushed into one large SSTable.
SstKeys == 19

\* ------------------------------------------------------------------------
\* Program constants
\* ------------------------------------------------------------------------
MAX_LEVEL == 2
maxMemSize == 300
mergeThreshold == 4
mergeChCap == 10
indexStride == 16
MaxHeight == 16
Colon == 58
AtSign == 64

\* "null"
TOMBSTONE_VALUE == << <<110, 1>>, <<117, 1>>, <<108, 2>> >>

\* ------------------------------------------------------------------------
\* Byte strings
\* ------------------------------------------------------------------------
RECURSIVE BLen(_)
BLen(s) == IF s = <<>> THEN 0 ELSE s[1][2] + BLen(Tail(s))

\* Concatenation (append(a, b...), "%s%s"), keeping the encoding canonical.
BCat(s, t) ==
    IF s = <<>> THEN t
    ELSE IF t = <<>> THEN s
    ELSE IF s[Len(s)][1] = t[1][1]
         THEN SubSeq(s, 1, Len(s) - 1)
              \o << <<t[1][1], s[Len(s)][2] + t[1][2]>> >> \o Tail(t)
         ELSE s \o t

\* bytes.Compare / Go string comparison: -1, 0, 1, byte-lexicographic.
RECURSIVE BCompare(_, _)
BCompare(s, t) ==
    IF s = <<>> THEN (IF t = <<>> THEN 0 ELSE -1)
    ELSE IF t = <<>> THEN 1
    ELSE IF s[1][1] # t[1][1] THEN (IF s[1][1] < t[1][1] THEN -1 ELSE 1)
    ELSE IF s[1][2] = t[1][2] THEN BCompare(Tail(s), Tail(t))
    ELSE IF s[1][2] < t[1][2]
         THEN BCompare(Tail(s), << <<t[1][1], t[1][2] - s[1][2]>> >> \o Tail(t))
         ELSE BCompare(<< <<s[1][1], s[1][2] - t[1][2]>> >> \o Tail(s), Tail(t))

\* strings.SplitN(s, sep, 2) for a one-byte separator: <<s>> when sep does
\* not occur, else <<before the first sep, everything after it>>.
SplitN2(s, sep) ==
    LET hits == {i \in 1..Len(s) : s[i][1] = sep} IN
    IF hits = {} THEN <<s>>
    ELSE LET i == CHOOSE j \in hits : \A h \in hits : j <= h
             rest == IF s[i][2] > 1 THEN << <<sep, s[i][2] - 1>> >> ELSE <<>>
         IN  << SubSeq(s, 1, i - 1), rest \o SubSeq(s, i + 1, Len(s)) >>

\* A run of n copies of byte b.
Rep(b, n) == << <<b, n>> >>

\* ------------------------------------------------------------------------
\* Ordered map (skip list): its level-0 list, a sequence of <<key, value>>
\* in ascending key order.
\* ------------------------------------------------------------------------
\* SkipList.search: index of the node with exactly this key, 0 when absent.
SLSearch(sl, k) ==
    LET hits == {i \in 1..Len(sl) : sl[i][1] = k} IN
    IF hits = {} THEN 0 ELSE CHOOSE i \in hits : TRUE

\* SkipList.Find: [found, val].
SLFind(sl, k) ==
    LET i == SLSearch(sl, k) IN
    IF i = 0 THEN [found |-> FALSE, val |-> <<>>]
    ELSE [found |-> TRUE, val |-> sl[i][2]]

\* SkipList.Insert: replace in place, else link after the last smaller key.
SLInsert(sl, k, v) ==
    LET i == SLSearch(sl, k) IN
    IF i # 0 THEN [sl EXCEPT ![i] = <<k, v>>]
    ELSE LET n == Cardinality({j \in 1..Len(sl) : BCompare(k, sl[j][1]) > 0})
         IN  SubSeq(sl, 1, n) \o << <<k, v>> >> \o SubSeq(sl, n + 1, Len(sl))

\* SkipList.Delete: unlink the node.
SLDelete(sl, k) ==
    LET i == SLSearch(sl, k) IN
    IF i = 0 THEN sl ELSE SubSeq(sl, 1, i - 1) \o SubSeq(sl, i + 1, Len(sl))

\* ------------------------------------------------------------------------
\* Memtable: [id, sl, size, count, readOnly, wal, walLinked, walErr].  id is the
\* identity of the Go object; wal is the number NNNN of wal_NNNN.log;
\* walLinked tells whether the file the handle has open is still the one
\* the directory lists under that name (an unlinked file keeps accepting
\* writes, which no later open can read); walErr tells whether the handle's
\* bufio.Writer has met a write error, which it then returns to every later
\* Write and Flush.
\* ------------------------------------------------------------------------
NoMem == [id |-> 0, sl |-> <<>>, size |-> 0, count |-> 0, readOnly |-> FALSE,
          wal |-> 0, walLinked |-> FALSE, walErr |-> FALSE]

\* MemTable.Insert after the WAL write: size accounting, then the skip list
\* (a read-only memtable panics: no caller inserts into one).
MemInsert(mt, k, v) ==
    IF mt.readOnly THEN mt
    ELSE
    LET existing == SLFind(mt.sl, k) IN
    IF existing.found
    THEN [mt EXCEPT !.size = mt.size - BLen(existing.val) + BLen(v),
                    !.sl = SLInsert(mt.sl, k, v)]
    ELSE [mt EXCEPT !.size = mt.size + BLen(k) + BLen(v),
                    !.count = mt.count + 1,
                    !.sl = SLInsert(mt.sl, k, v)]

\* A Delete that unlinks the node and leaves size and count alone.
MemDeleteUnaccounted(mt, k) == [mt EXCEPT !.sl = SLDelete(mt.sl, k)]

\* MemTable.Delete after the WAL write.
MemDelete(mt, k) ==
    LET existing == SLFind(mt.sl, k) IN
    IF existing.found
    THEN [mt EXCEPT !.size = mt.size - (BLen(k) + BLen(existing.val)),
                    !.count = mt.count - 1,
                    !.sl = SLDelete(mt.sl, k)]
    ELSE mt

MemShouldFlush(mt) == mt.size >= maxMemSize

\* ------------------------------------------------------------------------
\* Write-ahead log: a file is a sequence of frames [crc, type, key, val,
\* bytes].  The length prefixes of the binary frame make key and value read
\* back exactly; bytes is how much of the frame the file holds (a frame cut
\* short by a crash holds fewer than FrameLen); crc is the stored checksum.
\* ------------------------------------------------------------------------
WALEntryPut == 1
WALEntryDelete == 2

\* crc32.ChecksumIEEE over type, key length, key, value length, value:
\* taken as collision-free on the payloads compared here.
Checksum(type, k, v) == <<type, k, v>>

\* WriteEntry's buffer: checksum 4, type 1, key length 4, key, value
\* length 4, value.
FrameLen(k, v) == 13 + BLen(k) + BLen(v)

PutFrame(k, v) ==
    [crc |-> Checksum(WALEntryPut, k, v), type |-> WALEntryPut,
     key |-> k, val |-> v, bytes |-> FrameLen(k, v)]

\* A replay that accepts whatever checksum the frame stores.
ChecksumIgnored(f) == TRUE

\* "actualChecksum != expectedChecksum" of ReplayWAL, negated.
ChecksumOk(f) == f.crc = Checksum(f.type, f.key, f.val)

\* ReplayWAL: apply the frames, in order, to a memtable that has no WAL
\* handle yet (NewMemTable sets mt.wal after the replay).  Only a file that
\* ends exactly at a frame boundary reads io.EOF at the checksum and ends
\* the loop; a frame cut short fails one of the later reads, a complete
\* frame with a wrong checksum or an unknown type returns an error.
RECURSIVE ReplayWAL(_, _)
ReplayWAL(mt, frames) ==
    IF frames = <<>> THEN [err |-> FALSE, mt |-> mt]
    ELSE LET f == Head(frames) IN
         IF f.bytes < FrameLen(f.key, f.val) THEN [err |-> TRUE, mt |-> mt]
         ELSE IF ~ChecksumOk(f) THEN [err |-> TRUE, mt |-> mt]
         ELSE IF f.type = WALEntryPut
              THEN ReplayWAL(MemInsert(mt, f.key, f.val), Tail(frames))
         ELSE IF f.type = WALEntryDelete
              THEN ReplayWAL(MemDelete(mt, f.key), Tail(frames))
         ELSE [err |-> TRUE, mt |-> mt]

\* ------------------------------------------------------------------------
\* Bloom filter: [bits, numBits, numHashes, numItems], bits a sequence of
\* bytes.  A uint32 is kept as the pair <<high half, low half>> of 16-bit
\* halves, so that the arithmetic modulo 2^32 stays within small integers.
\* ------------------------------------------------------------------------
\* The bytes of a run-length encoded string.
RECURSIVE Bytes(_)
Bytes(s) ==
    IF s = <<>> THEN <<>>
    ELSE [i \in 1..s[1][2] |-> s[1][1]] \o Bytes(Tail(s))

\* a ^ b on the low n bits.
RECURSIVE Xor(_, _, _)
Xor(a, b, n) ==
    IF n = 0 THEN 0
    ELSE ((a + b) % 2) + 2 * Xor(a \div 2, b \div 2, n - 1)

\* One step of FNV-1a: hash ^= b; hash *= 16777619 (2^24 + 403), mod 2^32.
FnvStep(h, b) ==
    LET lo == (h[2] - (h[2] % 256)) + Xor(h[2] % 256, b, 8)
        p  == lo * 403
    IN  <<((h[1] * 403) + (p \div 65536) + ((lo % 256) * 256)) % 65536,
          p % 65536>>

\* fnv.New32a() fed the bytes bs, from the state h.
RECURSIVE Fnv(_, _)
Fnv(h, bs) == IF bs = <<>> THEN h ELSE Fnv(FnvStep(h, Head(bs)), Tail(bs))

\* The offset basis 2166136261 of fnv.New32a.
FnvOffset == <<33052, 40389>>

\* BloomFilter.hash: FNV-1a of the key, and FNV-1a of the seed de ad be ef
\* followed by the key, made odd.
BFHash(key) ==
    LET hash1 == Fnv(FnvOffset, Bytes(key))
        h2    == Fnv(FnvOffset, <<222, 173, 190, 239>> \o Bytes(key))
        hash2 == IF h2[2] % 2 = 0 THEN <<h2[1], h2[2] + 1>> ELSE h2
    IN  <<hash1, hash2>>

\* pos := (h1 + i*h2) % bf.numBits in uint32 arithmetic.
BFPos(h, i, numBits) ==
    LET lo == h[1][2] + (i * h[2][2])
        hi == (h[1][1] + (i * h[2][1]) + (lo \div 65536)) % 65536
    IN  ((hi % numBits) * (65536 % numBits) + (lo % 65536)) % numBits

\* NewBloomFilter(n, 0.01): numBits = ceil(n * 9.585058..), numHashes =
\* ceil(numBits / n * ln 2), at least 1 (n = 0 gives no bits).
NewBloomFilter(n) ==
    LET numBits   == ((n * 9585059) + 999999) \div 1000000
        numHashes == IF n = 0 THEN 1
                     ELSE ((numBits * 693148) + (n * 1000000) - 1)
                             \div (n * 1000000)
    IN  [bits |-> [j \in 1..((numBits + 7) \div 8) |-> 0],
         numBits |-> numBits,
         numHashes |-> IF numHashes = 0 THEN 1 ELSE numHashes,
         numItems |-> 0]

\* 1 << n.
RECURSIVE Shl(_)
Shl(n) == IF n = 0 THEN 1 ELSE 2 * Shl(n - 1)

\* getBit(pos).
BFGetBit(bits, pos) == (bits[(pos \div 8) + 1] \div Shl(pos % 8)) % 2 = 1

\* A setBit that sets nothing.
BFSetNoBit(bits, pos) == bits

\* setBit(pos).
BFSetBit(bits, pos) ==
    IF BFGetBit(bits, pos) THEN bits
    ELSE [bits EXCEPT ![(pos \div 8) + 1] = @ + Shl(pos % 8)]

\* The loop of BloomFilter.Add from hash number i on.
RECURSIVE BFSetFrom(_, _, _, _, _)
BFSetFrom(bits, h, i, numHashes, numBits) ==
    IF i >= numHashes THEN bits
    ELSE BFSetFrom(BFSetBit(bits, BFPos(h, i, numBits)), h, i + 1,
                   numHashes, numBits)

\* BloomFilter.Add.
BFAdd(bf, key) ==
    [bf EXCEPT !.bits = BFSetFrom(bf.bits, BFHash(key), 0, bf.numHashes,
                                  bf.numBits),
               !.numItems = @ + 1]

\* BloomFilter.MayContain.
BFMayContain(bf, key) ==
    LET h == BFHash(key) IN
    \A i \in 0..(bf.numHashes - 1) : BFGetBit(bf.bits, BFPos(h, i, bf.numBits))

\* The four big-endian bytes of a small uint32.
BE32(n) == <<(n \div 16777216) % 256, (n \div 65536) % 256,
             (n \div 256) % 256, n % 256>>

\* BloomFilter.Marshal: [numBits:4][numHashes:4][numItems:4][bits...].
BFMarshal(bf) ==
    BE32(bf.numBits) \o BE32(bf.numHashes) \o BE32(bf.numItems) \o bf.bits

\* The uint32 in data[i .. i+3], big-endian.
ReadBE32(data, i) ==
    (data[i] * 16777216) + (data[i + 1] * 65536) + (data[i + 2] * 256)
        + data[i + 3]

\* UnmarshalBloomFilter.
UnmarshalBloomFilter(data) ==
    [bits |-> SubSeq(data, 13, Len(data)),
     numBits |-> ReadBE32(data, 1),
     numHashes |-> ReadBE32(data, 5),
     numItems |-> ReadBE32(data, 9)]

\* ------------------------------------------------------------------------
\* SSTable writer.  The data region is the sequence of lines "key:value"
\* (each followed by "\n"), kept with the offset each line starts at.
\* ------------------------------------------------------------------------
NewSSTableWriter(expectedKeys) ==
    [recs |-> <<>>, dataOffset |-> 0, index |-> <<>>,
     bloom |-> NewBloomFilter(expectedKeys),
     minKey |-> <<>>, maxKey |-> <<>>]

\* fmt.Sprintf("%s:%s\n", key, value) without its final "\n".
FormatLine(k, v) == BCat(BCat(k, Rep(Colon, 1)), v)

WriterAppend(w, k, v) ==
    LET line == FormatLine(k, v)
        n    == BLen(line) + 1
    IN  [recs       |-> Append(w.recs, [off |-> w.dataOffset, line |-> line]),
         dataOffset |-> w.dataOffset + n,
         index      |-> IF Len(w.index) = 0 \/ Len(w.index) % indexStride = 0
                        THEN Append(w.index, [key |-> k, off |-> w.dataOffset])
                        ELSE w.index,
         bloom      |-> BFAdd(w.bloom, k),
         minKey     |-> IF BLen(w.minKey) = 0 THEN k ELSE w.minKey,
         maxKey     |-> k]

\* Finalize: index region, Bloom region and footer after the data region.
\* A file is [recs, index, bloom, minKey, maxKey, indexOffset], bloom being
\* the marshalled filter.
WriterFinalize(w) ==
    [recs |-> w.recs, index |-> w.index, bloom |-> BFMarshal(w.bloom),
     minKey |-> w.minKey, maxKey |-> w.maxKey,
     indexOffset |-> w.dataOffset + 15]

\* MemTable.Flush: iterate the skip list in order into a writer, finalize.
RECURSIVE FlushInto(_, _)
FlushInto(w, sl) ==
    IF sl = <<>> THEN w
    ELSE FlushInto(WriterAppend(w, sl[1][1], sl[1][2]), Tail(sl))

MemFlush(sl) == WriterFinalize(FlushInto(NewSSTableWriter(Len(sl)), sl))

\* ------------------------------------------------------------------------
\* SSTable reader
\* ------------------------------------------------------------------------
NotFound == [found |-> FALSE, val |-> <<>>]
Found(v) == [found |-> TRUE, val |-> v]

\* loadIndex: a line "key@offset:size" is split at its first '@'; a key
\* holding '@' leaves a remainder Sscanf rejects, and the entry is skipped.
LoadIndex(file) ==
    SelectSeq(file.index, LAMBDA e : Len(SplitN2(e.key, AtSign)) = 1)

\* "r.bloom != nil && !r.bloom.MayContain(key)" on the filter that
\* loadBloomFilter unmarshals from the Bloom region of the file.
MayContain(file, key) ==
    Len(file.bloom) < 12 \/ BFMayContain(UnmarshalBloomFilter(file.bloom), key)

\* The scan loop of SSTableReader.Get over the lines of one index block.
RECURSIVE ScanLines(_, _)
ScanLines(recs, key) ==
    IF recs = <<>> THEN NotFound
    ELSE LET parts == SplitN2(recs[1].line, Colon) IN
         IF Len(parts) # 2 THEN ScanLines(Tail(recs), key)
         ELSE IF parts[1] = key THEN Found(parts[2])
         ELSE IF BCompare(parts[1], key) > 0 THEN NotFound
         ELSE ScanLines(Tail(recs), key)

\* The sparse index navigation of SSTableReader.Get: the records inside the
\* section [startOffset, endOffset) that the scan loop reads.
IndexBlock(file, key) ==
    LET index == LoadIndex(file)
        ge    == {i \in 1..Len(index) : BCompare(index[i].key, key) >= 0}
        \* sort.Search, 1-based: Len(index) + 1 when no entry is >= key
        found == IF ge = {} THEN Len(index) + 1
                 ELSE CHOOSE i \in ge : \A j \in ge : i <= j
        idx1  == IF found > Len(index) THEN Len(index) ELSE found
        idx   == IF idx1 > 1 /\ BCompare(index[idx1].key, key) > 0
                 THEN idx1 - 1 ELSE idx1
    IN
    IF idx = 0 THEN <<>>   \* empty index: r.index[-1] panics in Go
    ELSE
      LET startOffset == index[idx].off
          endOffset   == IF idx + 1 <= Len(index) THEN index[idx + 1].off
                         ELSE file.indexOffset
      IN  SelectSeq(file.recs,
                    LAMBDA r : r.off >= startOffset /\ r.off < endOffset)

\* SSTableReader.Get on an open file.
SSTGet(file, key) ==
    IF BCompare(key, file.minKey) < 0 \/ BCompare(key, file.maxKey) > 0
    THEN NotFound
    ELSE IF ~MayContain(file, key) THEN NotFound
    ELSE ScanLines(IndexBlock(file, key), key)

\* SSTableReader.ReadAllRecords: the map line-key -> line-value, a later
\* line winning; returned as a sequence of <<key, value>> in key order.
RECURSIVE ReadLines(_, _)
ReadLines(acc, recs) ==
    IF recs = <<>> THEN acc
    ELSE LET parts == SplitN2(recs[1].line, Colon) IN
         ReadLines(IF Len(parts) # 2 \/ BLen(recs[1].line) = 0 THEN acc
                   ELSE SLInsert(acc, parts[1], parts[2]),
                   Tail(recs))

ReadAllRecords(file) == ReadLines(<<>>, file.recs)

\* ------------------------------------------------------------------------
\* State
\* ------------------------------------------------------------------------
VARIABLES
    \* the data directory
    walFiles,     \* wal_NNNN.log: NNNN -> sequence of frames
    sstFiles,     \* sst_NNNN.db:  NNNN -> file
    manifest,     \* MANIFEST: [exists, tiers, activeWAL, nextEntryID]
    \* V6Store
    memtable,     \* s.memtable
    immutable,    \* s.immutable (NoMem: nil)
    \* LSMManager
    tiers,        \* lsm.tiers: level+1 -> sequence of readers [path, id]
    nextEntryID,  \* lsm.nextEntryID
    closed,       \* paths of the readers whose file has been closed
    mergeCh,      \* lsm.mergeCh: queued batches
    \* goroutines
    setPc,        \* caller -> "idle" | "rotate" | "wait"
    setKey,       \* caller -> key of the Set it is in
    flushes,      \* running flushMemTable goroutines: [pc, mt, path]
    merger,       \* mergerWorker: [pc, level, segs, out, toDelete]
    phase,        \* "running" | "init" (between InitState and the rest of NewV6Store)
    \* bookkeeping of the run
    cfg,          \* inputs and bounds of the run
    wm,           \* the writeManifest call in progress: [pc, doc, prev, tmp, result]
    hist          \* what the callers have been told: [expected, uncertain,
                  \*  nSets, nCrashes, mtSeq, lostImm, preRot, preRotOk]

diskVars   == <<walFiles, sstFiles, manifest>>
storeVars  == <<memtable, immutable>>
lsmVars    == <<tiers, nextEntryID, closed, mergeCh>>
threadVars == <<setPc, setKey, flushes, merger>>
vars == <<walFiles, sstFiles, manifest, memtable, immutable, tiers,
          nextEntryID, closed, mergeCh, setPc, setKey, flushes, merger,
          phase, cfg, wm, hist>>

\* ------------------------------------------------------------------------
\* Inputs
\* ------------------------------------------------------------------------
KeyA == Rep(97, 1)
KeyB == Rep(98, 1)
\* "a:b"
KeyColon == << <<97, 1>>, <<Colon, 1>>, <<98, 1>> >>
BigValue == Rep(120, BigLen)
AllKeys == {KeyA, KeyB, KeyColon}
Values == {BigValue, TOMBSTONE_VALUE}
Setters == 1..NumSetters

NoWAL == -1
NoManifest == [exists |-> FALSE, tiers |-> <<>>, activeWAL |-> NoWAL,
               nextEntryID |-> 0]
MergerIdle == [pc |-> "idle", level |-> 0, segs |-> <<>>,
               out |-> [path |-> 0, id |-> 0], toDelete |-> <<>>]
\* No MANIFEST.tmp in the directory.
NoTmp == [exists |-> FALSE, chunks |-> <<>>]
\* No writeManifest call is running.
NoWrite == [pc |-> "idle", doc |-> NoManifest, prev |-> NoManifest,
            tmp |-> NoTmp, result |-> "none"]

\* ------------------------------------------------------------------------
\* Files
\* ------------------------------------------------------------------------
\* os.Create / O_CREATE of file n with content c in directory d.
PutFile(d, n, c) ==
    [x \in DOMAIN d \cup {n} |-> IF x = n THEN c ELSE d[x]]

\* os.Remove of the files named in ns.
RemoveFiles(d, ns) == [x \in DOMAIN d \ ns |-> d[x]]

\* NewWAL: open for append, creating the file when it is missing.
NewWAL(d, n) == IF n \in DOMAIN d THEN d ELSE PutFile(d, n, <<>>)

\* NewMemTable(walPath): replay the file when it exists, then open it.
NewMemTable(d, n, newId) ==
    LET frames == IF n \in DOMAIN d THEN d[n] ELSE <<>> IN
    [ReplayWAL(NoMem, frames).mt EXCEPT
        !.id = newId, !.wal = n, !.walLinked = TRUE]

\* "if err := ReplayWAL(walPath, mt); err != nil { return nil, err }".
NewMemTableFails(d, n) ==
    n \in DOMAIN d /\ ReplayWAL(NoMem, d[n]).err

\* ------------------------------------------------------------------------
\* LSM manager, pure parts
\* ------------------------------------------------------------------------
\* LoadSSTable(path): the reader; Id is left at its zero value.
LoadSSTable(path) == [path |-> path, id |-> 0]

\* buildManifestFromState: tiers and NextEntryID; ActiveWAL is left "".
buildManifestFromState(ts, nid) ==
    [exists |-> TRUE,
     tiers |-> [i \in 1..Len(ts) |-> [j \in 1..Len(ts[i]) |-> ts[i][j].path]],
     activeWAL |-> NoWAL,
     nextEntryID |-> nid]

\* UpdateActiveWAL(walName): the manifest it writes.
UpdateActiveWAL(ts, nid, walName) ==
    [buildManifestFromState(ts, nid) EXCEPT !.activeWAL = walName]

\* SSTableReader.Get through a reader, on the files of directory d with
\* the readers of cl closed: a closed file cannot be read.
ReaderGetAt(d, cl, h, key) ==
    IF h.path \in cl \/ h.path \notin DOMAIN d THEN NotFound
    ELSE SSTGet(d[h.path], key)

ReaderGet(h, key) == ReaderGetAt(sstFiles, closed, h, key)

\* LSMManager.Get: tiers from level 0 up, segments newest (last) first.
RECURSIVE FirstHitAt(_, _, _, _)
FirstHitAt(d, cl, hs, key) ==
    IF hs = <<>> THEN NotFound
    ELSE LET r == ReaderGetAt(d, cl, hs[Len(hs)], key) IN
         IF r.found THEN r
         ELSE FirstHitAt(d, cl, SubSeq(hs, 1, Len(hs) - 1), key)

FirstHit(hs, key) == FirstHitAt(sstFiles, closed, hs, key)

RECURSIVE TiersGetAt(_, _, _, _)
TiersGetAt(d, cl, ts, key) ==
    IF ts = <<>> THEN NotFound
    ELSE LET r == FirstHitAt(d, cl, ts[1], key) IN
         IF r.found THEN r ELSE TiersGetAt(d, cl, Tail(ts), key)

TiersGet(ts, key) == TiersGetAt(sstFiles, closed, ts, key)

LSMGet(key) == TiersGet(tiers, key)

\* The tombstone check of V6Store.Get.
Visible(r) == IF r.found /\ r.val = TOMBSTONE_VALUE THEN NotFound ELSE r

\* V6Store.Get: active memtable, immutable memtable, then the manager.
StoreGetAt(mt, imm, ts, d, cl, key) ==
    LET a == SLFind(mt.sl, key) IN
    IF a.found THEN Visible(a)
    ELSE LET b == IF imm.id # 0 THEN SLFind(imm.sl, key)
                  ELSE NotFound IN
         IF b.found THEN Visible(b)
         ELSE Visible(TiersGetAt(d, cl, ts, key))

StoreGet(key) ==
    StoreGetAt(memtable, immutable, tiers, sstFiles, closed, key)

\* ------------------------------------------------------------------------
\* Merger, pure parts
\* ------------------------------------------------------------------------
\* MemTable.InsertWithoutWAL on the transient memtable of a merge (the
\* repository calls it and NewMemTableWithoutWAL without defining them):
\* as the design describes the merge, a later (younger) value overwrites an
\* earlier one, and the transient memtable flushes like a frozen one.
InsertWithoutWAL(sl, k, v) == SLInsert(sl, k, v)

\* The inner loop of performMerge over the records of one segment.
RECURSIVE MergeEntries(_, _, _)
MergeEntries(temp, entries, isMaxLevel) ==
    IF entries = <<>> THEN temp
    ELSE LET key == entries[1][1]
             value == entries[1][2]
             isTombstone == value = TOMBSTONE_VALUE
         IN  MergeEntries(IF isMaxLevel /\ isTombstone THEN temp
                          ELSE InsertWithoutWAL(temp, key, value),
                          Tail(entries), isMaxLevel)

\* A performMerge that treats every level as the maximum level.
AlwaysMaxLevel(level) == TRUE

\* Whether performMerge treats its input level as the maximum level.
IsMaxLevel(level) == level >= MAX_LEVEL

\* The outer loop of performMerge: segments in batch order.
RECURSIVE MergeSegments(_, _, _)
MergeSegments(temp, segs, level) ==
    IF segs = <<>> THEN temp
    ELSE MergeSegments(
            MergeEntries(temp, ReadAllRecords(sstFiles[segs[1].path]),
                         IsMaxLevel(level)),
            Tail(segs), level)

\* performMerge fails on an empty batch and on a segment it cannot read.
MergeFails(segs) ==
    \/ Len(segs) = 0
    \/ \E i \in 1..Len(segs) :
          segs[i].path \in closed \/ segs[i].path \notin DOMAIN sstFiles

\* The target level of runMergeCycle.
TargetLevel(level) == IF level >= MAX_LEVEL THEN MAX_LEVEL ELSE level + 1

\* "Make sure next tier exists".
RECURSIVE EnsureTiers(_, _)
EnsureTiers(ts, targetLevel) ==
    IF Len(ts) > targetLevel THEN ts
    ELSE EnsureTiers(Append(ts, <<>>), targetLevel)

\* "Keep segments that weren't merged": by reader Id.
Remaining(tier, segsToMerge) ==
    LET mergedIDs == {segsToMerge[i].id : i \in 1..Len(segsToMerge)} IN
    SelectSeq(tier, LAMBDA seg : seg.id \notin mergedIDs)

\* The tier list runMergeCycle commits.
CommitTiers(ts, level, segsToMerge, out) ==
    LET targetLevel == TargetLevel(level)
        t1 == EnsureTiers(ts, targetLevel)
        t2 == IF level < Len(t1)
              THEN [t1 EXCEPT ![level + 1] = Remaining(t1[level + 1], segsToMerge)]
              ELSE t1
    IN  [t2 EXCEPT ![targetLevel + 1] = Append(t2[targetLevel + 1], out)]

\* ------------------------------------------------------------------------
\* Initial state: NewV6Store on an empty data directory.
\* ------------------------------------------------------------------------
InitHist ==
    [expected |-> [k \in AllKeys |-> NotFound], uncertain |-> {},
     nSets |-> 0, nCrashes |-> 0, mtSeq |-> 1,
     lostImm |-> {}, lostSst |-> {}, preRot |-> <<>>, fresh |-> FALSE,
     setErr |-> 0, wmErr |-> 0, flushErr |-> 0, memOps |-> {},
     preClose |-> <<>>]

InitStore(c) ==
    /\ cfg = c
    /\ wm = NoWrite
    /\ walFiles = PutFile(<<>>, 0, <<>>)
    /\ sstFiles = <<>>
    /\ manifest = NoManifest
    /\ memtable = NewMemTable(<<>>, 0, 1)
    /\ immutable = NoMem
    /\ tiers = <<>>
    /\ nextEntryID = 0
    /\ closed = {}
    /\ mergeCh = <<>>
    /\ setPc = [p \in c.setters |-> "idle"]
    /\ setKey = [p \in c.setters |-> <<>>]
    /\ flushes = {}
    /\ merger = MergerIdle
    /\ phase = "running"
    /\ hist = InitHist

\* ------------------------------------------------------------------------
\* V6Store.Set (Update and Delete call it): the locked part.
\* ------------------------------------------------------------------------
SetInsert(p, k, v) ==
    /\ phase = "running"
    /\ setPc[p] = "idle"
    /\ hist.nSets < cfg.maxSets
    /\ ~memtable.walErr
    /\ walFiles' = IF memtable.walLinked /\ memtable.wal \in DOMAIN walFiles
                   THEN [walFiles EXCEPT ![memtable.wal] = Append(@, PutFrame(k, v))]
                   ELSE walFiles
    /\ memtable' = MemInsert(memtable, k, v)
    /\ setPc' = [setPc EXCEPT ![p] =
                    IF MemShouldFlush(memtable') THEN "rotate" ELSE "idle"]
    /\ setKey' = [setKey EXCEPT ![p] =
                    IF MemShouldFlush(memtable') THEN k ELSE <<>>]
    /\ hist' = [hist EXCEPT !.expected[k] = Found(v),
                            !.uncertain = @ \ {k},
                            !.nSets = @ + 1,
                            !.lostImm = {}, !.lostSst = {},
                            !.preRot = <<>>, !.fresh = FALSE]
    /\ UNCHANGED <<sstFiles, manifest, immutable, lsmVars, flushes, merger,
                   phase, cfg, wm>>

\* An Insert that does its accounting although the WAL write failed.
InsertDespiteError(mt, k, v) == MemInsert(mt, k, v)

\* MemTable.Insert when WritePut returns an error: "return err" comes
\* before the size accounting and the skip list insert.
InsertWALError(mt, k, v) == mt

\* V6Store.Set whose WAL append fails: WriteEntry's Flush got n bytes of
\* the frame into the file before the error (none when n = 0).  Set unlocks
\* and returns the error without looking at ShouldFlush.
SetFails(p, k, v, n) ==
    /\ phase = "running"
    /\ setPc[p] = "idle"
    /\ hist.nSets < cfg.maxSets
    /\ walFiles' = IF n > 0 /\ ~memtable.walErr /\ memtable.walLinked
                      /\ memtable.wal \in DOMAIN walFiles
                   THEN [walFiles EXCEPT ![memtable.wal] =
                            Append(@, [PutFrame(k, v) EXCEPT !.bytes = n])]
                   ELSE walFiles
    /\ memtable' = [InsertWALError(memtable, k, v) EXCEPT !.walErr = TRUE]
    /\ hist' = [hist EXCEPT !.nSets = @ + 1, !.setErr = @ + 1]
    /\ UNCHANGED <<sstFiles, manifest, immutable, lsmVars, threadVars,
                   phase, cfg, wm>>

\* A rotation that never finds the immutable slot occupied.
SlotNeverOccupied(imm) == FALSE

\* "for s.immutable != nil": the rotation waits while the slot is occupied.
SlotOccupied(imm) == imm.id # 0

\* A rotation that leaves the frozen memtable in place as the active one.
KeepsFrozenActive(frozen, newMemtable) == frozen

\* "s.memtable = newMemtable": the active memtable after the swap.
ActiveAfterSwap(frozen, newMemtable) == newMemtable

\* The body of rotateMemTable once the immutable slot is free.  When
\* NewMemTable fails the rotation returns the error and changes nothing.
RotateBody(p) ==
    LET walName == nextEntryID
        newMemtable == NewMemTable(walFiles, walName, hist.mtSeq + 1)
        frozen == [memtable EXCEPT !.readOnly = TRUE]
    IN
    IF NewMemTableFails(walFiles, walName)
    THEN /\ setPc' = [setPc EXCEPT ![p] = "idle"]
         /\ setKey' = [setKey EXCEPT ![p] = <<>>]
         /\ UNCHANGED <<diskVars, storeVars, lsmVars, flushes, merger,
                        phase, cfg, wm, hist>>
    ELSE
    /\ walFiles' = NewWAL(walFiles, walName)
    /\ immutable' = frozen
    /\ memtable' = ActiveAfterSwap(frozen, newMemtable)
    /\ manifest' = UpdateActiveWAL(tiers, nextEntryID, walName)
    /\ flushes' = flushes \cup {[pc |-> "write", mt |-> frozen, path |-> 0]}
    /\ setPc' = [setPc EXCEPT ![p] = "idle"]
    /\ setKey' = [setKey EXCEPT ![p] = <<>>]
    /\ hist' = [hist EXCEPT !.mtSeq = @ + 1,
                            !.preRot = [k \in cfg.keys |-> StoreGet(k)]]
    /\ UNCHANGED <<sstFiles, lsmVars, merger, phase, cfg, wm>>

\* rotateMemTable up to its wait loop.
Rotate(p) ==
    /\ phase = "running"
    /\ setPc[p] = "rotate"
    /\ IF ~MemShouldFlush(memtable)
       THEN /\ setPc' = [setPc EXCEPT ![p] = "idle"]
            /\ setKey' = [setKey EXCEPT ![p] = <<>>]
            /\ UNCHANGED <<diskVars, storeVars, lsmVars, flushes, merger,
                           phase, cfg, wm, hist>>
       ELSE IF SlotOccupied(immutable)
       THEN /\ setPc' = [setPc EXCEPT ![p] = "wait"]
            /\ UNCHANGED <<diskVars, storeVars, lsmVars, setKey, flushes,
                           merger, phase, cfg, wm, hist>>
       ELSE RotateBody(p)

\* The wait loop of rotateMemTable: leaves once the slot is free.
RotateWait(p) ==
    /\ phase = "running"
    /\ setPc[p] = "wait"
    /\ ~SlotOccupied(immutable)
    /\ RotateBody(p)

\* ------------------------------------------------------------------------
\* flushMemTable, the goroutine rotateMemTable starts
\* ------------------------------------------------------------------------
\* CreateSSTablePath, then mt.Flush(sstPath).
FlushWrite(f) ==
    /\ phase = "running"
    /\ f \in flushes /\ f.pc = "write"
    /\ nextEntryID' = nextEntryID + 1
    /\ sstFiles' = PutFile(sstFiles, nextEntryID, MemFlush(f.mt.sl))
    /\ flushes' = (flushes \ {f}) \cup {[f EXCEPT !.pc = "add", !.path = nextEntryID]}
    /\ UNCHANGED <<walFiles, manifest, storeVars, tiers, closed, mergeCh,
                   setPc, setKey, merger, phase, cfg, wm, hist>>

\* AddSSTable: tier 0 with the new reader appended.
AddToTier0(ts, sst) ==
    LET t == IF Len(ts) = 0 THEN << <<>> >> ELSE ts IN
    [t EXCEPT ![1] = Append(t[1], sst)]

\* AddSSTable: the channel after the non-blocking send of the tier-0
\* snapshot (dropped when the channel is full).
SendMerge(ch, ts) ==
    IF Len(ts[1]) >= mergeThreshold /\ Len(ch) < mergeChCap
    THEN Append(ch, ts[1]) ELSE ch

\* A plain "lsm.mergeCh <- toMerge": it waits while the channel is full.
SendBlocks(ch, ts) == Len(ts[1]) < mergeThreshold \/ Len(ch) < mergeChCap

\* "select { case lsm.mergeCh <- toMerge: default: }": never waits.
SendReady(ch, ts) == TRUE

\* s.manager.AddSSTable(sstPath).
FlushAdd(f) ==
    /\ phase = "running"
    /\ f \in flushes /\ f.pc = "add"
    /\ SendReady(mergeCh, AddToTier0(tiers, LoadSSTable(f.path)))
    /\ tiers' = AddToTier0(tiers, LoadSSTable(f.path))
    /\ manifest' = buildManifestFromState(tiers', nextEntryID)
    /\ mergeCh' = SendMerge(mergeCh, tiers')
    /\ flushes' = (flushes \ {f}) \cup {[f EXCEPT !.pc = "finish"]}
    /\ UNCHANGED <<walFiles, sstFiles, storeVars, nextEntryID, closed,
                   setPc, setKey, merger, phase, cfg, wm, hist>>

\* A flush that leaves the immutable slot as it is.
SlotKept(imm, mt) == imm

\* "if s.immutable == mt { s.immutable = nil }".
ClearSlot(imm, mt) == IF imm.id = mt.id THEN NoMem ELSE imm

\* mt.Close, DeleteWAL(walPath), then "if s.immutable == mt".
FlushFinish(f) ==
    /\ phase = "running"
    /\ f \in flushes /\ f.pc = "finish"
    /\ walFiles' = RemoveFiles(walFiles, {f.mt.wal})
    /\ memtable' = IF memtable.wal = f.mt.wal /\ f.mt.wal \in DOMAIN walFiles
                   THEN [memtable EXCEPT !.walLinked = FALSE]
                   ELSE memtable
    /\ immutable' = ClearSlot(immutable, f.mt)
    /\ flushes' = flushes \ {f}
    /\ UNCHANGED <<sstFiles, manifest, lsmVars, setPc, setKey, merger,
                   phase, cfg, wm, hist>>

\* ------------------------------------------------------------------------
\* mergerWorker
\* ------------------------------------------------------------------------
\* performMerge(level, segs) when it succeeds: the merged file is written
\* at a fresh path and loaded, its Id parsed from the file name.
PerformMerge(level, segs, toDelete) ==
    /\ nextEntryID' = nextEntryID + 1
    /\ sstFiles' = PutFile(sstFiles, nextEntryID,
                           MemFlush(MergeSegments(<<>>, segs, level)))
    /\ merger' = [pc |-> "commit", level |-> level, segs |-> segs,
                  out |-> [path |-> nextEntryID, id |-> nextEntryID],
                  toDelete |-> toDelete]

\* The worker receives a batch and runs performMerge at level 0.
MergerStart ==
    /\ phase = "running"
    /\ merger.pc = "idle"
    /\ mergeCh # <<>>
    /\ mergeCh' = Tail(mergeCh)
    /\ IF MergeFails(Head(mergeCh))
       THEN UNCHANGED <<nextEntryID, sstFiles, merger>>
       ELSE PerformMerge(0, Head(mergeCh), <<>>)
    /\ UNCHANGED <<walFiles, manifest, storeVars, tiers, closed, setPc,
                   setKey, flushes, phase, cfg, wm, hist>>

\* A merge cycle that never goes on to the next tier.
NeverCascade(next, targetLevel) == FALSE

\* "if nextSegmentsToMerge != nil && targetLevel < lsm.maxLevels".
ShouldCascade(next, targetLevel) == next # <<>> /\ targetLevel < MAX_LEVEL

\* The locked part of runMergeCycle, and what follows the unlock.
MergerCommit ==
    /\ phase = "running"
    /\ merger.pc = "commit"
    /\ LET targetLevel == TargetLevel(merger.level)
           next == IF Len(tiers'[targetLevel + 1]) >= mergeThreshold
                   THEN tiers'[targetLevel + 1] ELSE <<>>
       IN
       /\ tiers' = CommitTiers(tiers, merger.level, merger.segs, merger.out)
       /\ manifest' = buildManifestFromState(tiers', nextEntryID)
       /\ merger' = IF ShouldCascade(next, targetLevel)
                    THEN [merger EXCEPT !.pc = "perform",
                                        !.level = targetLevel,
                                        !.segs = next,
                                        !.toDelete = @ \o merger.segs]
                    ELSE [merger EXCEPT !.pc = "cleanup",
                                        !.toDelete = @ \o merger.segs]
    /\ UNCHANGED <<walFiles, sstFiles, storeVars, nextEntryID, closed,
                   mergeCh, setPc, setKey, flushes, phase, cfg, wm, hist>>

\* The cascaded runMergeCycle: performMerge at the target level.
MergerCascade ==
    /\ phase = "running"
    /\ merger.pc = "perform"
    /\ IF MergeFails(merger.segs)
       THEN /\ merger' = [merger EXCEPT !.pc = "cleanup"]
            /\ UNCHANGED <<nextEntryID, sstFiles>>
       ELSE PerformMerge(merger.level, merger.segs, merger.toDelete)
    /\ UNCHANGED <<walFiles, manifest, storeVars, tiers, closed, mergeCh,
                   setPc, setKey, flushes, phase, cfg, wm, hist>>

\* "Delete old segments": close and unlink every reader in toDelete.
MergerCleanup ==
    /\ phase = "running"
    /\ merger.pc = "cleanup"
    /\ LET paths == {merger.toDelete[i].path : i \in 1..Len(merger.toDelete)} IN
       /\ closed' = closed \cup paths
       /\ sstFiles' = RemoveFiles(sstFiles, paths)
    /\ merger' = MergerIdle
    /\ UNCHANGED <<walFiles, manifest, storeVars, tiers, nextEntryID,
                   mergeCh, setPc, setKey, flushes, phase, cfg, wm, hist>>

\* ------------------------------------------------------------------------
\* Crash and restart: NewV6Store on the directory the crash left
\* ------------------------------------------------------------------------
\* A set of file numbers in ascending order (os.ReadDir sorts by name).
RECURSIVE SortedSeq(_)
SortedSeq(S) ==
    IF S = {} THEN <<>>
    ELSE LET m == CHOOSE x \in S : \A y \in S : x <= y
         IN  <<m>> \o SortedSeq(S \ {m})

\* DiscoverSegments: a reader for every sst_NNNN.db of the directory.
DiscoverSegments(d) ==
    LET names == SortedSeq(DOMAIN d) IN
    [i \in 1..Len(names) |-> LoadSSTable(names[i])]

\* The set validFiles of InitState, as SSTable numbers ...
ManifestSst(m) ==
    UNION {{m.tiers[i][j] : j \in 1..Len(m.tiers[i])} : i \in 1..Len(m.tiers)}

\* ... and as WAL numbers.
ManifestWal(m) == IF m.activeWAL # NoWAL THEN {m.activeWAL} ELSE {}

\* A cleanup that removes nothing.
cleanupNothing(d, valid) == d

\* cleanupDirectory(validFiles): remove every other .db and .log file.
cleanupDirectory(d, valid) == RemoveFiles(d, DOMAIN d \ valid)

\* What a crash leaves for the callers to expect.
CrashHist ==
    LET pending == {f \in flushes : f.pc \in {"write", "add"}}
        inFlight == {setKey[p] : p \in {q \in cfg.setters : setPc[q] # "idle"}}
    IN  [hist EXCEPT
           !.uncertain = @ \cup inFlight,
           !.nCrashes = @ + 1,
           !.preRot = <<>>,
           !.fresh = TRUE,
           !.lostSst = {f.path : f \in {g \in pending : g.pc = "add"}},
           !.lostImm = UNION {{f.mt.sl[i] : i \in
                                {j \in 1..Len(f.mt.sl) :
                                   ~SLFind(memtable.sl, f.mt.sl[j][1]).found}}
                              : f \in pending}]

\* NewV6Store in a new process: it starts a manager, which runs InitState.
InitStateStep ==
    /\ IF ~manifest.exists
       THEN \* initializeFromDirectory
            LET segments == DiscoverSegments(sstFiles) IN
            IF Len(segments) = 0
            THEN /\ tiers' = <<>>
                 /\ nextEntryID' = 0
                 /\ UNCHANGED diskVars
            ELSE /\ tiers' = <<segments>>
                 /\ nextEntryID' = segments[Len(segments)].id + 1
                 /\ manifest' = buildManifestFromState(tiers', nextEntryID')
                 /\ UNCHANGED <<walFiles, sstFiles>>
       ELSE /\ nextEntryID' = manifest.nextEntryID
            /\ tiers' = [i \in 1..Len(manifest.tiers) |->
                           [j \in 1..Len(manifest.tiers[i]) |->
                               LoadSSTable(manifest.tiers[i][j])]]
            /\ sstFiles' = cleanupDirectory(sstFiles, ManifestSst(manifest))
            /\ walFiles' = cleanupDirectory(walFiles, ManifestWal(manifest))
            /\ UNCHANGED manifest
    /\ memtable' = NoMem
    /\ immutable' = NoMem
    /\ closed' = {}
    /\ mergeCh' = <<>>
    /\ setPc' = [p \in cfg.setters |-> "idle"]
    /\ setKey' = [p \in cfg.setters |-> <<>>]
    /\ flushes' = {}
    /\ merger' = MergerIdle
    /\ phase' = "init"
    /\ UNCHANGED <<cfg, wm>>

\* The process dies and is started again.
CrashInitState ==
    /\ phase = "running"
    /\ hist.nCrashes < cfg.maxCrashes
    /\ InitStateStep
    /\ hist' = CrashHist

\* V6Store.Close, then NewV6Store in a new process.  Close returns once no
\* flush goroutine is left (flushWg.Wait) and the merger worker has taken
\* the stop signal, which it does between two batches; the batches still
\* queued are dropped with the process.  hist.preClose keeps the store as
\* it was at Close.
CloseInitState ==
    /\ phase = "running"
    /\ hist.nCrashes < cfg.maxCrashes
    /\ \A p \in cfg.setters : setPc[p] = "idle"
    /\ flushes = {}
    /\ merger.pc = "idle"
    /\ InitStateStep
    /\ hist' = [CrashHist EXCEPT
                   !.preClose = [memtable |-> memtable, immutable |-> immutable,
                                 tiers |-> tiers, sstFiles |-> sstFiles,
                                 closed |-> closed, walFiles |-> walFiles]]

\* The rest of NewV6Store: the active WAL is chosen and replayed.  A replay
\* error makes NewV6Store panic ("failed to create memtable"): the process
\* ends with no store.
OpenStore ==
    /\ phase = "init"
    /\ LET activeWAL == IF manifest.exists THEN manifest.activeWAL ELSE 0
           walName == IF activeWAL # NoWAL THEN activeWAL ELSE 0
       IN
       /\ manifest' = IF activeWAL # NoWAL THEN manifest
                      ELSE UpdateActiveWAL(tiers, nextEntryID, 0)
       /\ IF NewMemTableFails(walFiles, walName)
          THEN /\ phase' = "panic"
               /\ UNCHANGED <<memtable, walFiles, hist>>
          ELSE /\ memtable' = NewMemTable(walFiles, walName, hist.mtSeq + 1)
               /\ walFiles' = NewWAL(walFiles, walName)
               /\ hist' = [hist EXCEPT !.mtSeq = @ + 1]
               /\ phase' = "running"
    /\ UNCHANGED <<sstFiles, immutable, lsmVars, threadVars, cfg, wm>>

\* ------------------------------------------------------------------------
\* Specifications
\* ------------------------------------------------------------------------
\* The steps of a store opened on a fresh directory.  A cascaded merge needs
\* four tables in tier 1, that is sixteen flushes: NextMerge, on a directory
\* whose tiers are populated, has it.
Next ==
    \/ \E p \in cfg.setters, k \in cfg.keys, v \in Values : SetInsert(p, k, v)
    \/ \E p \in cfg.setters : Rotate(p)
    \/ \E p \in cfg.setters : RotateWait(p)
    \/ \E f \in flushes : FlushWrite(f)
    \/ \E f \in flushes : FlushAdd(f)
    \/ \E f \in flushes : FlushFinish(f)
    \/ MergerStart
    \/ MergerCommit
    \/ MergerCleanup
    \/ CrashInitState
    \/ OpenStore

\* Concurrent callers on a fresh data directory, with a crash.
Init == InitStore([keys |-> {KeyA, KeyB}, maxSets |-> MaxSets,
                   maxCrashes |-> MaxCrashes, setters |-> Setters])

Spec == Init /\ [][Next]_vars

\* A single caller on a fresh data directory.
InitSeq == InitStore([keys |-> {KeyA, KeyB}, maxSets |-> SeqSets,
                      maxCrashes |-> MaxCrashes, setters |-> {1}])

SpecSeq == InitSeq /\ [][Next]_vars

\* A single caller whose keys include one with a ':' byte.
InitBytes == InitStore([keys |-> {KeyA, KeyColon}, maxSets |-> MaxSets,
                        maxCrashes |-> MaxCrashes, setters |-> {1}])

SpecBytes == InitBytes /\ [][Next]_vars

\* A single caller on a store being reopened on the directory an earlier
\* run left after eighteen flushes and three merges: tier 1 holds the
\* merged tables sst_0004, sst_0009 and sst_0014 (key "a"), tier 0 the
\* flushed tables sst_0015 .. sst_0017 (key "b"); the manifest was last
\* written by AddSSTable. InitState has loaded the tiers; NewV6Store is
\* about to open the active WAL.
MergedTable == MemFlush(<< <<KeyA, BigValue>> >>)
FlushedTable == MemFlush(<< <<KeyB, BigValue>> >>)
Tier1Paths == <<4, 9, 14>>
Tier0Paths == <<15, 16, 17>>

InitMerge ==
    /\ cfg = [keys |-> {KeyA, KeyB}, maxSets |-> MergeSets,
              maxCrashes |-> 0, setters |-> {1}]
    /\ wm = NoWrite
    /\ walFiles = <<>>
    /\ sstFiles = [n \in {4, 9, 14, 15, 16, 17} |->
                     IF n < 15 THEN MergedTable ELSE FlushedTable]
    /\ manifest = [exists |-> TRUE, tiers |-> <<Tier0Paths, Tier1Paths>>,
                   activeWAL |-> NoWAL, nextEntryID |-> 18]
    /\ memtable = NoMem
    /\ immutable = NoMem
    /\ tiers = [i \in 1..2 |-> [j \in 1..3 |->
                    LoadSSTable(manifest.tiers[i][j])]]
    /\ nextEntryID = manifest.nextEntryID
    /\ closed = {}
    /\ mergeCh = <<>>
    /\ setPc = [p \in {1} |-> "idle"]
    /\ setKey = [p \in {1} |-> <<>>]
    /\ flushes = {}
    /\ merger = MergerIdle
    /\ phase = "init"
    /\ hist = [InitHist EXCEPT !.expected[KeyA] = Found(BigValue),
                               !.expected[KeyB] = Found(BigValue),
                               !.fresh = TRUE]

NextMerge ==
    \/ \E p \in cfg.setters, k \in cfg.keys, v \in Values : SetInsert(p, k, v)
    \/ \E p \in cfg.setters : Rotate(p)
    \/ \E p \in cfg.setters : RotateWait(p)
    \/ \E f \in flushes : FlushWrite(f)
    \/ \E f \in flushes : FlushAdd(f)
    \/ \E f \in flushes : FlushFinish(f)
    \/ MergerStart
    \/ MergerCommit
    \/ MergerCascade
    \/ MergerCleanup
    \/ OpenStore

SpecMerge == InitMerge /\ [][NextMerge]_vars

\* NewV6Store on a directory that holds the SSTables sst_0000 ..
\* sst_0002 (key "b") and no MANIFEST: InitState has gone through
\* initializeFromDirectory, which put the discovered segments in tier 0,
\* set nextEntryID from the last of them and wrote the first manifest.
InitBoot ==
    /\ cfg = [keys |-> {KeyA, KeyB}, maxSets |-> MergeSets,
              maxCrashes |-> MaxCrashes, setters |-> {1}]
    /\ wm = NoWrite
    /\ walFiles = <<>>
    /\ sstFiles = [n \in 0..(BootTables - 1) |-> FlushedTable]
    /\ tiers = <<DiscoverSegments(sstFiles)>>
    /\ nextEntryID = tiers[1][Len(tiers[1])].id + 1
    /\ manifest = buildManifestFromState(tiers, nextEntryID)
    /\ memtable = NoMem
    /\ immutable = NoMem
    /\ closed = {}
    /\ mergeCh = <<>>
    /\ setPc = [p \in {1} |-> "idle"]
    /\ setKey = [p \in {1} |-> <<>>]
    /\ flushes = {}
    /\ merger = MergerIdle
    /\ phase = "init"
    /\ hist = [InitHist EXCEPT !.expected[KeyB] = Found(BigValue),
                               !.fresh = TRUE]

SpecBoot == InitBoot /\ [][Next]_vars

\* A store opened on a fresh directory whose caller has Set the keys of a
\* range of one-byte keys, up to two of them left out, in key order with a
\* one-byte value, and last the smallest of them with a value that fills
\* the memtable: rotateMemTable has frozen the memtable and started the
\* flush goroutine.  The frozen memtable holds more than indexStride
\* entries.
SstKey(i) == Rep(96 + i, 1)
SmallValue == Rep(118, 1)

InitSst ==
    \E h1 \in 0..SstKeys, h2 \in 0..SstKeys :
       LET order  == SortedSeq((1..SstKeys) \ {h1, h2})
           frames == [i \in 1..(Len(order) - 1) |->
                         PutFrame(SstKey(order[i + 1]), SmallValue)]
                     \o <<PutFrame(SstKey(order[1]), SmallValue),
                          PutFrame(SstKey(order[1]), BigValue)>>
           d      == PutFile(<<>>, 0, frames)
           frozen == [NewMemTable(d, 0, 1) EXCEPT !.readOnly = TRUE]
       IN
       /\ cfg = [keys |-> {SstKey(i) : i \in 1..SstKeys}, maxSets |-> 0,
                 maxCrashes |-> 0, setters |-> {1}]
       /\ wm = NoWrite
       /\ walFiles = d
       /\ sstFiles = <<>>
       /\ manifest = UpdateActiveWAL(<<>>, 0, 0)
       /\ memtable = NewMemTable(d, 0, 2)
       /\ immutable = frozen
       /\ tiers = <<>>
       /\ nextEntryID = 0
       /\ closed = {}
       /\ mergeCh = <<>>
       /\ setPc = [p \in {1} |-> "idle"]
       /\ setKey = [p \in {1} |-> <<>>]
       /\ flushes = {[pc |-> "write", mt |-> frozen, path |-> 0]}
       /\ merger = MergerIdle
       /\ phase = "running"
       /\ hist = [InitHist EXCEPT !.mtSeq = 2, !.nSets = Len(frames)]

NextSst ==
    \/ \E f \in flushes : FlushWrite(f)
    \/ \E f \in flushes : FlushAdd(f)
    \/ \E f \in flushes : FlushFinish(f)

SpecSst == InitSst /\ [][NextSst]_vars

\* ------------------------------------------------------------------------
\* writeManifest, step by step
\* ------------------------------------------------------------------------
\* json.NewEncoder(file).Encode(manifest): the document as the fields
\* tiers, active_wal, next_entry_id, which reach the file in this order.
Serialise(doc) == <<doc.tiers, doc.activeWAL, doc.nextEntryID>>

\* What a MANIFEST holding an incomplete document is to its readers.
PartialManifest == [exists |-> TRUE, partial |-> TRUE]

\* json.NewDecoder(f).Decode(&manifest) in InitState.
Decode(chunks) ==
    IF Len(chunks) = Len(Serialise(NoManifest))
    THEN [exists |-> TRUE, tiers |-> chunks[1], activeWAL |-> chunks[2],
          nextEntryID |-> chunks[3]]
    ELSE PartialManifest

\* The manifests the callers of writeManifest build: buildManifestFromState
\* and UpdateActiveWAL over small tier lists, ids and WAL names.
ManifestDocs ==
    LET tierLists == {<<>>, << <<LoadSSTable(0)>> >>,
                      << <<LoadSSTable(0), LoadSSTable(1)>> >>} IN
    {buildManifestFromState(ts, nid) : ts \in tierLists, nid \in 0..MaxManifestID}
    \cup {UpdateActiveWAL(ts, nid, w) :
             ts \in tierLists, nid \in 0..MaxManifestID, w \in 0..MaxManifestID}

\* The variables writeManifest leaves alone.
engineVars == <<walFiles, sstFiles, memtable, immutable, tiers, nextEntryID,
                closed, mergeCh, setPc, setKey, flushes, merger, phase,
                cfg, hist>>

\* os.Create(tempPath): MANIFEST.tmp is created or truncated.
WMCreate(doc) ==
    /\ wm.pc = "idle"
    /\ wm' = [pc |-> "encode", doc |-> doc, prev |-> manifest,
              tmp |-> [exists |-> TRUE, chunks |-> <<>>],
              result |-> "none"]
    /\ UNCHANGED <<manifest, engineVars>>

\* Encode in progress: one more field has reached MANIFEST.tmp.
WMEncode ==
    /\ wm.pc = "encode"
    /\ Len(wm.tmp.chunks) < Len(Serialise(wm.doc))
    /\ wm' = [wm EXCEPT !.tmp.chunks =
                           Append(@, Serialise(wm.doc)[Len(@) + 1])]
    /\ UNCHANGED <<manifest, engineVars>>

\* A writeManifest that goes on before Encode has written the document.
EncodeDoneAlways(tmp, doc) == TRUE

\* Encode has returned: the whole document is in MANIFEST.tmp.
EncodeDone(tmp, doc) == tmp.chunks = Serialise(doc)

\* file.Sync() after Encode returned without error.
WMSync ==
    /\ wm.pc = "encode"
    /\ EncodeDone(wm.tmp, wm.doc)
    /\ wm' = [wm EXCEPT !.pc = "rename"]
    /\ UNCHANGED <<manifest, engineVars>>

\* os.Rename(tempPath, filePath) succeeds.
WMRename ==
    /\ wm.pc = "rename"
    /\ manifest' = Decode(wm.tmp.chunks)
    /\ wm' = [wm EXCEPT !.pc = "idle", !.tmp = NoTmp, !.result = "ok"]
    /\ UNCHANGED engineVars

\* Encode, Sync or Rename returns an error: os.Remove(tempPath), return err.
WMFail ==
    /\ wm.pc \in {"encode", "rename"}
    /\ wm' = [wm EXCEPT !.pc = "idle", !.tmp = NoTmp, !.result = "err"]
    /\ UNCHANGED <<manifest, engineVars>>

\* The process dies inside writeManifest; the files stay as they are.
WMCrash ==
    /\ wm.pc \in {"encode", "rename"}
    /\ wm' = [wm EXCEPT !.pc = "crashed"]
    /\ UNCHANGED <<manifest, engineVars>>

\* The next NewV6Store: InitState opens and decodes MANIFEST.
WMRestart ==
    /\ wm.pc = "crashed"
    /\ wm' = [wm EXCEPT !.pc = "idle"]
    /\ UNCHANGED <<manifest, engineVars>>

InitManifest ==
    InitStore([keys |-> {KeyA}, maxSets |-> 0, maxCrashes |-> 0,
               setters |-> {1}])

NextManifest ==
    \/ \E doc \in ManifestDocs : WMCreate(doc)
    \/ WMEncode
    \/ WMSync
    \/ WMRename
    \/ WMFail
    \/ WMCrash
    \/ WMRestart

SpecManifest == InitManifest /\ [][NextManifest]_vars

\* ------------------------------------------------------------------------
\* NewV6Store on a directory that holds only wal_0000.log, as a process
\* that never rotated leaves it: no MANIFEST, so InitState returns a
\* manifest naming wal_0000.log.  The log is what WriteEntry appended, with
\* at most one frame damaged: a complete frame whose stored checksum or
\* whose value no longer match, or a last frame cut short by the crash.
\* ------------------------------------------------------------------------
LoggedFrames ==
    {PutFrame(k, v) : k \in {KeyA, KeyB}, v \in {SmallValue, TOMBSTONE_VALUE}}

Logs == UNION {[1..n -> LoggedFrames] : n \in 0..MaxFrames}

\* A complete frame whose checksum field was altered on disk.
FlipChecksum(f) == [f EXCEPT !.crc = Checksum(f.type, f.key, <<>>)]

\* A complete frame whose value bytes were altered on disk.
FlipValue(f) ==
    [f EXCEPT !.val = IF f.val = SmallValue THEN Rep(119, 1) ELSE SmallValue]

\* A frame of which only the first n bytes reached the file.
CutFrame(f, n) == [f EXCEPT !.bytes = n]

DamagedLogs(log) ==
    {log}
    \cup {[log EXCEPT ![i] = FlipChecksum(log[i])] : i \in 1..Len(log)}
    \cup {[log EXCEPT ![i] = FlipValue(log[i])] : i \in 1..Len(log)}
    \cup {[log EXCEPT ![Len(log)] = CutFrame(log[Len(log)], n)] :
             n \in IF log = <<>> THEN {}
                   ELSE {1, 4, 5, log[Len(log)].bytes - 1}}

InitReplay ==
    \E good \in Logs : \E log \in DamagedLogs(good) :
        /\ cfg = [keys |-> {KeyA, KeyB}, maxSets |-> 1, maxCrashes |-> 0,
                  setters |-> {1}]
        /\ wm = NoWrite
        /\ walFiles = PutFile(<<>>, 0, log)
        /\ sstFiles = <<>>
        /\ manifest = NoManifest
        /\ memtable = NoMem
        /\ immutable = NoMem
        /\ tiers = <<>>
        /\ nextEntryID = 0
        /\ closed = {}
        /\ mergeCh = <<>>
        /\ setPc = [p \in {1} |-> "idle"]
        /\ setKey = [p \in {1} |-> <<>>]
        /\ flushes = {}
        /\ merger = MergerIdle
        /\ phase = "init"
        /\ hist = InitHist

NextReplay ==
    \/ OpenStore
    \/ \E p \in cfg.setters, k \in cfg.keys, v \in Values : SetInsert(p, k, v)

SpecReplay == InitReplay /\ [][NextReplay]_vars

\* ------------------------------------------------------------------------
\* A single caller on a fresh data directory whose WAL file can refuse a
\* write (disk full, I/O error): any Set may be the first to fail, and the
\* handle fails every Set after it.
\* ------------------------------------------------------------------------
InitWalFail == InitStore([keys |-> {KeyA, KeyB}, maxSets |-> FailSets,
                          maxCrashes |-> MaxCrashes, setters |-> {1}])

NextWalFail ==
    \/ \E p \in cfg.setters, k \in cfg.keys, v \in Values : SetInsert(p, k, v)
    \/ \E p \in cfg.setters, k \in cfg.keys, v \in Values :
          \E n \in {0, 1, FrameLen(k, v) - 1} : SetFails(p, k, v, n)
    \/ \E p \in cfg.setters : Rotate(p)
    \/ \E p \in cfg.setters : RotateWait(p)
    \/ \E f \in flushes : FlushWrite(f)
    \/ \E f \in flushes : FlushAdd(f)
    \/ \E f \in flushes : FlushFinish(f)
    \/ CrashInitState
    \/ OpenStore

SpecWalFail == InitWalFail /\ [][NextWalFail]_vars

\* ------------------------------------------------------------------------
\* The store of InitMerge on a disk that can refuse an operation: the flush
\* goroutine and the merger meet errors from the file system.
\* ------------------------------------------------------------------------
\* flushMemTable when mt.Flush(sstPath) returns an error (NewSSTableWriter
\* cannot create the file): the path was handed out, the goroutine returns.
FlushWriteFails(f) ==
    /\ phase = "running"
    /\ f \in flushes /\ f.pc = "write"
    /\ nextEntryID' = nextEntryID + 1
    /\ flushes' = flushes \ {f}
    /\ hist' = [hist EXCEPT !.flushErr = @ + 1]
    /\ UNCHANGED <<diskVars, storeVars, tiers, closed, mergeCh, setPc,
                   setKey, merger, phase, cfg, wm>>

\* flushMemTable when AddSSTable returns an error: LoadSSTable fails before
\* the lock is taken (stage "load"), or writeManifest fails after the
\* reader was appended to tier 0 (stage "manifest"); AddSSTable unlocks and
\* returns before the merge check, and the goroutine returns.
FlushAddFails(f, stage) ==
    /\ phase = "running"
    /\ f \in flushes /\ f.pc = "add"
    /\ tiers' = IF stage = "manifest"
                THEN AddToTier0(tiers, LoadSSTable(f.path)) ELSE tiers
    /\ flushes' = flushes \ {f}
    /\ hist' = [hist EXCEPT !.flushErr = @ + 1,
                            !.wmErr = IF stage = "manifest" THEN @ + 1 ELSE @]
    /\ UNCHANGED <<diskVars, storeVars, nextEntryID, closed, mergeCh, setPc,
                   setKey, merger, phase, cfg, wm>>

\* runMergeCycle when writeManifest fails in the commit: the tiers were
\* rewritten under the lock, the error is returned before the batch joins
\* toDelete, and the worker goes on to delete what toDelete holds.
MergerCommitFails ==
    /\ phase = "running"
    /\ merger.pc = "commit"
    /\ tiers' = CommitTiers(tiers, merger.level, merger.segs, merger.out)
    /\ merger' = [merger EXCEPT !.pc = "cleanup"]
    /\ hist' = [hist EXCEPT !.wmErr = @ + 1]
    /\ UNCHANGED <<diskVars, storeVars, nextEntryID, closed, mergeCh, setPc,
                   setKey, flushes, phase, cfg, wm>>

\* performMerge fails on a batch whose inputs are readable: ReadAllRecords
\* meets a read error (stage "read"), or the output cannot be written or
\* loaded after CreateSSTablePath handed out its path (stage "write").
MergeIOFails(stage) ==
    /\ phase = "running"
    /\ merger.pc \in {"idle", "perform"}
    /\ IF merger.pc = "idle"
       THEN /\ mergeCh # <<>>
            /\ mergeCh' = Tail(mergeCh)
            /\ UNCHANGED merger
       ELSE /\ merger' = [merger EXCEPT !.pc = "cleanup"]
            /\ UNCHANGED mergeCh
    /\ nextEntryID' = IF stage = "write" THEN nextEntryID + 1 ELSE nextEntryID
    /\ UNCHANGED <<diskVars, storeVars, tiers, closed, setPc, setKey,
                   flushes, phase, cfg, wm, hist>>

NextIoFail ==
    \/ \E p \in cfg.setters, k \in cfg.keys, v \in Values : SetInsert(p, k, v)
    \/ \E p \in cfg.setters : Rotate(p)
    \/ \E p \in cfg.setters : RotateWait(p)
    \/ \E f \in flushes : FlushWrite(f)
    \/ \E f \in flushes : FlushWriteFails(f)
    \/ \E f \in flushes : FlushAdd(f)
    \/ \E f \in flushes, stage \in {"load", "manifest"} : FlushAddFails(f, stage)
    \/ \E f \in flushes : FlushFinish(f)
    \/ MergerStart
    \/ MergerCommit
    \/ MergerCommitFails
    \/ MergerCascade
    \/ \E stage \in {"read", "write"} : MergeIOFails(stage)
    \/ MergerCleanup
    \/ OpenStore

SpecIoFail == InitMerge /\ [][NextIoFail]_vars

\* ------------------------------------------------------------------------
\* A single caller on a fresh data directory whose flushes can fail.
\* ------------------------------------------------------------------------
InitFlushFail == InitStore([keys |-> {KeyA, KeyB}, maxSets |-> FlushFailSets,
                            maxCrashes |-> 0, setters |-> {1}])

NextFlushFail ==
    \/ \E p \in cfg.setters, k \in cfg.keys, v \in Values : SetInsert(p, k, v)
    \/ \E p \in cfg.setters : Rotate(p)
    \/ \E p \in cfg.setters : RotateWait(p)
    \/ \E f \in flushes : FlushWrite(f)
    \/ \E f \in flushes : FlushWriteFails(f)
    \/ \E f \in flushes : FlushAdd(f)
    \/ \E f \in flushes, stage \in {"load", "manifest"} : FlushAddFails(f, stage)
    \/ \E f \in flushes : FlushFinish(f)

SpecFlushFail == InitFlushFail /\ [][NextFlushFail]_vars

\* ------------------------------------------------------------------------
\* Properties
\* ------------------------------------------------------------------------
\* No Set on key k is between its insert and its return.
Returned(k) == \A p \in cfg.setters : setPc[p] = "idle" \/ setKey[p] # k

\* The store is open and the process has not crashed so far.
NoCrash == phase = "running" /\ hist.nCrashes = 0

\* C1 (read-your-writes, no crash): once Set(k, v) has returned and no
\* later Set or Delete of k has been issued, Get(k) returns v, whatever
\* rotations, flushes and merge cycles have run in between.
ReadYourWrites ==
    NoCrash =>
        \A k \in cfg.keys :
            (/\ Returned(k)
             /\ hist.expected[k].found
             /\ hist.expected[k].val # TOMBSTONE_VALUE)
            => StoreGet(k) = hist.expected[k]

\* C2 (delete masks, no crash): once Delete(k) has returned and no later
\* Set of k has been issued, Get(k) is NotFound, whatever older values of k
\* sit in the immutable memtable or in any tier.
DeleteMasks ==
    NoCrash =>
        \A k \in cfg.keys :
            (Returned(k) /\ hist.expected[k] = Found(TOMBSTONE_VALUE))
            => ~StoreGet(k).found

\* The store has just been reopened after a crash: no Set since.
Restarted == phase = "running" /\ hist.fresh

\* C3 (durability): after a crash and the restart (InitState, then the WAL
\* replay of NewV6Store), Get(k) returns the value of the last Set(k, v)
\* that had returned, for every key with no write in flight at the crash.
Durability ==
    Restarted =>
        \A k \in cfg.keys \ hist.uncertain :
            StoreGet(k) = Visible(hist.expected[k])

\* C4 (crash mid-flush): after a crash that came between the freeze of a
\* memtable and the AddSSTable of its SSTable, the restart has removed the
\* partial SSTable and Get returns every key/value the frozen memtable
\* held (and the active memtable had not overwritten).
CrashMidFlush ==
    Restarted =>
        /\ hist.lostSst \cap DOMAIN sstFiles = {}
        /\ \A e \in hist.lostImm : StoreGet(e[1]) = Visible(Found(e[2]))

\* C5 (active WAL in the manifest): whenever a manifest has been written
\* and the store is open, its active_wal field names a WAL file, the one
\* of the active memtable.
ManifestNamesActiveWAL ==
    (phase = "running" /\ manifest.exists) =>
        /\ manifest.activeWAL # NoWAL
        /\ manifest.activeWAL = memtable.wal

AtMostOneImmutable ==
    /\ Cardinality(flushes) <= 1
    /\ \A f \in flushes : f.mt.readOnly /\ immutable = f.mt
    /\ immutable # NoMem => flushes # {}

\* A caller is in the wait loop of rotateMemTable while another caller's
\* frozen memtable is being flushed, and the active memtable is full.
RotationWaitsOnOccupiedSlot ==
    /\ \E p \in cfg.setters : setPc[p] = "wait"
    /\ flushes # {}
    /\ MemShouldFlush(memtable)

\* A merge batch is queued on the merge channel or the worker is busy.
MergeQueuedOrRunning == mergeCh # <<>> \/ merger.pc # "idle"

\* C8 (tier-0 bound): whenever a Set has returned (here: one issued since
\* the store was opened, with no caller still inside Set), tier 0 holds
\* fewer than mergeThreshold segments or a merge is queued or running.
TierZeroBound ==
    (/\ phase = "running"
     /\ hist.nSets > 0
     /\ ~hist.fresh
     /\ \A p \in cfg.setters : setPc[p] = "idle")
    => \/ Len(tiers) = 0
       \/ Len(tiers[1]) < mergeThreshold
       \/ MergeQueuedOrRunning

\* The flush of the last rotation has registered its SSTable and cleared
\* the immutable slot, and no Set, merge commit or crash came in between.
FlushCompleted ==
    /\ phase = "running"
    /\ hist.preRot # <<>>
    /\ flushes = {}
    /\ ~SlotOccupied(immutable)

\* C9 (flush is observationally neutral): for every key, over byte strings
\* that may hold a ':', Get returns after the completed flush what it
\* returned just before the rotation.
FlushNeutral ==
    FlushCompleted => \A k \in cfg.keys : StoreGet(k) = hist.preRot[k]

\* The tables of tier MAX_LEVEL.
MaxLevelTables == IF Len(tiers) > MAX_LEVEL THEN tiers[MAX_LEVEL + 1] ELSE <<>>

\* C10 (tombstones dropped at the terminal level): a table that a cascade
\* of merges has placed at MAX_LEVEL holds no tombstone record.
NoTombstoneAtMaxLevel ==
    \A i \in 1..Len(MaxLevelTables) :
        LET path == MaxLevelTables[i].path IN
        path \in DOMAIN sstFiles =>
            LET records == ReadAllRecords(sstFiles[path]) IN
            \A j \in 1..Len(records) : records[j][2] # TOMBSTONE_VALUE

\* The value the youngest (last) segment of a merge batch holding key k
\* gives it, as ReadAllRecords reads the segments.
RECURSIVE YoungestInput(_, _)
YoungestInput(segs, k) ==
    IF segs = <<>> THEN NotFound
    ELSE LET last == segs[Len(segs)]
             r == IF last.path \in DOMAIN sstFiles
                  THEN SLFind(ReadAllRecords(sstFiles[last.path]), k)
                  ELSE NotFound
         IN  IF r.found THEN r
             ELSE YoungestInput(SubSeq(segs, 1, Len(segs) - 1), k)

\* performMerge has produced a table for a level below MAX_LEVEL and
\* runMergeCycle is about to commit it.
MergeBelowMaxLevel ==
    /\ merger.pc = "commit"
    /\ TargetLevel(merger.level) < MAX_LEVEL

RotationStep ==
    /\ phase = "running"
    /\ phase' = "running"
    /\ hist'.mtSeq # hist.mtSeq

\* C12 (rotation binds the new memtable to a fresh WAL): at every rotation
\* the new WAL name differs from the WAL of the memtable being frozen and
\* names no WAL file already in the directory, and the new active memtable
\* starts empty.
RotationFreshWAL ==
    [][RotationStep =>
          /\ memtable'.wal # memtable.wal
          /\ memtable'.wal \notin DOMAIN walFiles
          /\ memtable'.sl = <<>>
          /\ memtable'.size = 0]_vars

\* C13 (CreateSSTablePath hands out fresh paths): NextEntryID never
\* decreases, restarts included, so no path is handed out twice, and the
\* path handed out (the id before the increment) is not the path of an
\* SSTable file in the directory.
CreatePathFresh ==
    [][/\ nextEntryID' >= nextEntryID
       /\ (nextEntryID' # nextEntryID /\ phase = "running" /\ phase' = "running")
             => nextEntryID \notin DOMAIN sstFiles]_vars

\* C14 (atomic manifest write): at every point of writeManifest, a crash
\* included, MANIFEST holds a complete document, the previous one or the
\* new one; when writeManifest returned an error MANIFEST holds the
\* previous document and MANIFEST.tmp is gone.
AtomicManifestWrite ==
    /\ manifest \in ManifestDocs \cup {NoManifest}
    /\ manifest \in {wm.prev, wm.doc}
    /\ wm.result = "err" => manifest = wm.prev /\ wm.tmp = NoTmp
    /\ wm.result = "ok" => manifest = wm.doc /\ wm.tmp = NoTmp

\* C14 witness: the process died inside writeManifest while MANIFEST.tmp
\* held part of a new document that differs from the MANIFEST in place.
CrashInsideWriteManifest ==
    /\ wm.pc = "crashed"
    /\ wm.tmp.exists
    /\ Len(wm.tmp.chunks) \in 1..(Len(Serialise(wm.doc)) - 1)
    /\ manifest.exists
    /\ manifest = wm.prev
    /\ wm.doc # wm.prev

\* The SSTable a flush goroutine has written and finalized.
Written(f) == f.pc \in {"add", "finish"} /\ f.path \in DOMAIN sstFiles

\* C15 (Bloom no-false-negative): for every SSTable a flush has written
\* with Append and Finalize, the Bloom filter read back from the file
\* answers MayContain(k) = true for every key k that was appended.
BloomNoFalseNegative ==
    \A f \in flushes :
        Written(f) =>
            LET bloom == UnmarshalBloomFilter(sstFiles[f.path].bloom) IN
            /\ bloom.numItems = Len(f.mt.sl)
            /\ \A i \in 1..Len(f.mt.sl) :
                  /\ BFMayContain(bloom, f.mt.sl[i][1])
                  /\ MayContain(sstFiles[f.path], f.mt.sl[i][1])

\* C15 witness: a table of more than indexStride keys has been written,
\* loaded by AddSSTable and registered in tier 0, and its filter is not
\* saturated: it rejects one of the keys left out.
LargeTableLoaded ==
    \E f \in flushes :
        /\ f.pc = "finish"
        /\ Written(f)
        /\ Len(f.mt.sl) > indexStride
        /\ Len(tiers) > 0
        /\ \E j \in 1..Len(tiers[1]) : tiers[1][j].path = f.path
        /\ \E k \in cfg.keys :
              /\ ~SLFind(f.mt.sl, k).found
              /\ ~BFMayContain(UnmarshalBloomFilter(sstFiles[f.path].bloom), k)

\* The key of a record of the data region: the line up to its first ':',
\* as SSTableReader.Get and ReadAllRecords split it.
RecordKey(rec) == SplitN2(rec.line, Colon)[1]

\* C16 (sorted data region): in every SSTable file a flush or a merge has
\* written, the keys of successive records of the data region are in
\* strictly increasing byte order (sorted, no duplicate key).
DataRegionSorted ==
    \A n \in DOMAIN sstFiles :
        LET recs == sstFiles[n].recs IN
        \A i \in 1..(Len(recs) - 1) :
            BCompare(RecordKey(recs[i]), RecordKey(recs[i + 1])) < 0

\* C17 (point lookup complete and exact): for a table that a flush has
\* written from the sorted entries of a memtable and AddSSTable has
\* loaded, SSTableReader.Get returns the appended value for every
\* appended key and NotFound for every other key.
PointLookupExact ==
    \A f \in flushes :
        (f.pc = "finish" /\ Written(f)) =>
            \A k \in cfg.keys :
                ReaderGet(LoadSSTable(f.path), k) = SLFind(f.mt.sl, k)


\* A complete frame of the log fails its checksum.
CorruptAt(log, i) ==
    /\ log[i].bytes = FrameLen(log[i].key, log[i].val)
    /\ log[i].crc # Checksum(log[i].type, log[i].key, log[i].val)

\* C18: when a complete frame of the active WAL fails its CRC32 check, the
\* replay returns an error and NewV6Store does not produce a store: no frame
\* is applied to a memtable the engine serves from, and the engine never
\* runs on the log truncated at the corrupt frame.
CorruptFrameAbortsRecovery ==
    (0 \in DOMAIN walFiles /\ \E i \in 1..Len(walFiles[0]) :
                                  CorruptAt(walFiles[0], i))
        => (phase \in {"init", "panic"} /\ memtable = NoMem)

\* NewV6Store has panicked on a log whose corrupt frame is followed by a
\* valid one.
CorruptFrameBeforeValidFrame ==
    /\ phase = "panic"
    /\ \E i \in 1..(Len(walFiles[0]) - 1) : CorruptAt(walFiles[0], i)

\* The log ends in a frame cut short and every earlier frame is intact.
PartialTail(log) ==
    /\ log # <<>>
    /\ log[Len(log)].bytes < FrameLen(log[Len(log)].key, log[Len(log)].val)
    /\ \A i \in 1..(Len(log) - 1) :
          /\ log[i].bytes = FrameLen(log[i].key, log[i].val)
          /\ log[i].crc = Checksum(log[i].type, log[i].key, log[i].val)

\* C19: when the active WAL ends in an incomplete frame, NewV6Store starts
\* the engine with every complete earlier frame applied to the memtable.
PartialTailRecovered ==
    (phase # "init" /\ hist.nSets = 0 /\ PartialTail(walFiles[0]))
        => /\ phase = "running"
           /\ memtable.sl =
                ReplayWAL(NoMem, SubSeq(walFiles[0], 1,
                                        Len(walFiles[0]) - 1)).mt.sl


\* C20: a Set whose WAL append fails leaves the active memtable's contents,
\* accounted size and entry count as they were, and every Get answers as
\* before the failed Set.
FailedSetLeavesMemtable ==
    [][hist'.setErr # hist.setErr =>
          /\ memtable'.sl = memtable.sl
          /\ memtable'.size = memtable.size
          /\ memtable'.count = memtable.count
          /\ \A k \in cfg.keys :
                StoreGetAt(memtable', immutable', tiers', sstFiles',
                           closed', k) = StoreGet(k)]_vars

\* A Set has failed on a memtable that holds an entry, after part of its
\* frame reached the WAL file.
SetFailedOnFilledMemtable ==
    /\ phase = "running"
    /\ hist.setErr > 0
    /\ memtable.walErr
    /\ memtable.count > 0
    /\ memtable.wal \in DOMAIN walFiles
    /\ walFiles[memtable.wal] # <<>>
    /\ walFiles[memtable.wal][Len(walFiles[memtable.wal])].bytes = 1


\* The step of runMergeCycle that commits the merged table.
CommitStep == merger.pc = "commit" /\ merger'.pc \in {"perform", "cleanup"}

\* The paths of the readers of a batch.
BatchPaths(segs) == {segs[i].path : i \in 1..Len(segs)}

\* C21 (a merge commit removes exactly the merged batch): every segment of
\* the source tier that is not in the batch (one AddSSTable appended after
\* the snapshot) is still listed in the tier and in the manifest after the
\* commit.
CommitKeepsLaterSegments ==
    [][CommitStep =>
          \A j \in 1..Len(tiers[merger.level + 1]) :
              LET seg == tiers[merger.level + 1][j] IN
              seg.path \notin BatchPaths(merger.segs) =>
                  /\ \E n \in 1..Len(tiers'[merger.level + 1]) :
                        tiers'[merger.level + 1][n].path = seg.path
                  /\ \E n \in 1..Len(manifest'.tiers[merger.level + 1]) :
                        manifest'.tiers[merger.level + 1][n] = seg.path]_vars


\* Every segment of a batch snapshotted from tier level is listed in that
\* tier in memory and in the persisted manifest.
BatchListed(segs, level) ==
    \A i \in 1..Len(segs) :
        /\ Len(tiers) > level
        /\ \E n \in 1..Len(tiers[level + 1]) :
              tiers[level + 1][n].path = segs[i].path
        /\ manifest.exists
        /\ Len(manifest.tiers) > level
        /\ \E n \in 1..Len(manifest.tiers[level + 1]) :
              manifest.tiers[level + 1][n] = segs[i].path

\* C22 (source segments stay listed until the merge commits): every batch
\* that has been snapshotted and not yet committed, whether it waits on the
\* merge channel or the merger holds it, has all of its segments listed in
\* its tier and in the manifest.
SourcesListedUntilCommit ==
    phase = "running" =>
        /\ \A b \in 1..Len(mergeCh) : BatchListed(mergeCh[b], 0)
        /\ merger.pc \in {"perform", "commit"} =>
              BatchListed(merger.segs, merger.level)


\* C23 (merge keeps the youngest value): once performMerge has produced its
\* table, a lookup of any key in that table gives what the newest input
\* segment holding the key gives, and finds nothing for a key that no input
\* holds.
MergeKeepsYoungest ==
    (phase = "running" /\ merger.pc = "commit") =>
        \A k \in AllKeys :
            ReaderGet(merger.out, k) = FirstHit(merger.segs, k)


\* The positions <<level, index>> of the tables whose reader finds key.
Holders(key) ==
    {pos \in UNION {{<<i, j>> : j \in 1..Len(tiers[i])} : i \in 1..Len(tiers)} :
        ReaderGet(tiers[pos[1]][pos[2]], key).found}

\* LSMManager.Get answers from the holder of the lowest level and, in that
\* level, the one appended last; it finds nothing only when no reader does.
GetVisitsNewestFirst ==
    \A k \in AllKeys :
        IF Holders(k) = {} THEN ~LSMGet(k).found
        ELSE LET first == CHOOSE p \in Holders(k) : \A q \in Holders(k) :
                             p[1] < q[1] \/ (p[1] = q[1] /\ p[2] >= q[2])
             IN  LSMGet(k) = ReaderGet(tiers[first[1]][first[2]], k)

\* The table flush f wrote is the one appended last to tier 0, and its
\* reader is open.
NewestTable(f) ==
    /\ f.pc = "finish"
    /\ Written(f)
    /\ f.path \notin closed
    /\ Len(tiers) > 0
    /\ tiers[1] # <<>>
    /\ tiers[1][Len(tiers[1])].path = f.path

\* C24 (LSMManager.Get returns the value of the newest table containing
\* the key): a key the newest table of tier 0 was written with is answered
\* with the value that table was written with.
GetReturnsNewest ==
    phase = "running" =>
        \A f \in flushes :
            NewestTable(f) =>
                \A k \in cfg.keys :
                    SLFind(f.mt.sl, k).found =>
                        LSMGet(k) = SLFind(f.mt.sl, k)


\* The step in which a merge cycle returns nil to the worker: the commit
\* after which runMergeCycle does not recurse.
CycleReturnsNil == merger.pc = "commit" /\ merger'.pc = "cleanup"

\* C25 (cascading merge bound): when a merge cycle returns without error,
\* every tier L with 1 <= L < MAX_LEVEL holds fewer than mergeThreshold
\* segments, no tier lies above MAX_LEVEL, and the cycle, whose level
\* grows by one with each recursion, has recursed at most MAX_LEVEL times.
CascadeBound ==
    [][CycleReturnsNil =>
          /\ \A L \in 1..(MAX_LEVEL - 1) :
                Len(tiers') > L => Len(tiers'[L + 1]) < mergeThreshold
          /\ Len(tiers') <= MAX_LEVEL + 1
          /\ merger.level <= MAX_LEVEL]_vars

\* A cycle that cascaded from tier 0 into tier 1 has returned: both batches
\* await deletion and tier 2 holds the table of the second merge.
CascadedCycleReturned ==
    /\ merger.pc = "cleanup"
    /\ merger.level = 1
    /\ Len(merger.toDelete) >= 2 * mergeThreshold
    /\ Len(tiers) = MAX_LEVEL + 1
    /\ tiers[2] = <<>>
    /\ Len(tiers[3]) = 1


\* C26 (a manifest write failure aborts the mutation): when writeManifest
\* fails inside AddSSTable or inside the merge commit, the in-memory tier
\* list is what it was before the operation, and so still matches the
\* persisted manifest, which the failed write left alone.
ManifestFailureAborts ==
    [][hist'.wmErr # hist.wmErr =>
          /\ tiers' = tiers
          /\ manifest' = manifest]_vars


\* The step in which performMerge returns an error: the worker's batch is
\* dropped at level 0, or the cascaded cycle ends.
MergeFailStep ==
    /\ phase = "running" /\ phase' = "running"
    /\ \/ /\ merger.pc = "idle" /\ merger'.pc = "idle"
          /\ mergeCh # <<>> /\ mergeCh' = Tail(mergeCh)
       \/ merger.pc = "perform" /\ merger'.pc = "cleanup"

\* The batch and the level of the performMerge that is about to run.
FailedBatch == IF merger.pc = "idle" THEN Head(mergeCh) ELSE merger.segs
FailedLevel == IF merger.pc = "idle" THEN 0 ELSE merger.level

\* C27 (a merge IO failure leaves the tiers untouched): when performMerge
\* fails, the tier list and the persisted manifest are unchanged, and every
\* source segment of the batch is still listed in its tier, its reader open
\* and its file in the directory.
MergeFailureLeavesSources ==
    [][MergeFailStep =>
          /\ tiers' = tiers
          /\ manifest' = manifest
          /\ \A i \in 1..Len(FailedBatch) :
                /\ Len(tiers') > FailedLevel
                /\ \E n \in 1..Len(tiers'[FailedLevel + 1]) :
                      tiers'[FailedLevel + 1][n].path = FailedBatch[i].path
                /\ FailedBatch[i].path \notin closed'
                /\ FailedBatch[i].path \in DOMAIN sstFiles']_vars


\* C28 (a flush failure keeps the data reachable): when MemTable.Flush or
\* AddSSTable fails in flushMemTable, the frozen memtable is still in the
\* immutable slot, Get answers its keys (unless the active memtable has
\* them), its WAL file is still the one the directory lists, and no flush
\* of that memtable is pending.
FlushFailureKeepsData ==
    [][hist'.flushErr # hist.flushErr =>
          \A f \in flushes \ flushes' :
              /\ immutable'.id = f.mt.id
              /\ immutable'.sl = f.mt.sl
              /\ \A k \in cfg.keys :
                    (SLFind(f.mt.sl, k).found /\ ~SLFind(memtable'.sl, k).found)
                        => StoreGetAt(memtable', immutable', tiers',
                                      sstFiles', closed', k)
                               = Visible(SLFind(f.mt.sl, k))
              /\ f.mt.walLinked
              /\ f.mt.wal \in DOMAIN walFiles'
              /\ \A g \in flushes' : g.mt.id # f.mt.id]_vars


\* The paths of the readers InitState has registered in the tiers.
RegisteredPaths ==
    UNION {{tiers[i][j].path : j \in 1..Len(tiers[i])} : i \in 1..Len(tiers)}

\* C29 (open-time SSTable failures are reported): InitState, which in this
\* code never returns an error for a table it cannot open, has registered
\* in the tiers only tables whose file LoadSSTable can open.
InitStateRegistersLoadable ==
    (phase = "init" /\ hist.nCrashes > 0) =>
        \A path \in RegisteredPaths : path \in DOMAIN sstFiles


\* C30 (SSTable handle lifetime): the tables the worker is about to close
\* and unlink are listed in no tier and not in the manifest; no table
\* listed in a tier, where Get would read it, has a closed handle; and no
\* batch that performMerge is still to read holds a table with a closed
\* handle.
HandleLifetime ==
    phase = "running" =>
        /\ merger.pc = "cleanup" =>
              \A path \in BatchPaths(merger.toDelete) :
                  /\ path \notin RegisteredPaths
                  /\ path \notin ManifestSst(manifest)
        /\ RegisteredPaths \cap closed = {}
        /\ \A b \in 1..Len(mergeCh) : BatchPaths(mergeCh[b]) \cap closed = {}
        /\ merger.pc = "perform" => BatchPaths(merger.segs) \cap closed = {}

\* A step of flushMemTable that unlinks WAL file n.
WalUnlinked(n) ==
    /\ phase = "running"
    /\ phase' = "running"
    /\ n \in DOMAIN walFiles
    /\ n \notin DOMAIN walFiles'

\* The memtables that hold WAL file n open.
WalOwners(n) ==
    {mt \in {memtable, immutable} : mt.id # 0 /\ mt.walLinked /\ mt.wal = n}

\* flushMemTable has got past mt.Flush and AddSSTable for memtable mt: its
\* SSTable was finalized and the manifest rewritten with it.
Materialized(mt) ==
    \E f \in flushes : f.pc = "finish" /\ f.mt.id = mt.id /\ f.mt.sl = mt.sl

\* C31 (WAL retirement order): when flushMemTable unlinks a WAL file, every
\* memtable writing to that file has its SSTable finalized and referenced
\* by the manifest, and the immutable slot still holds the flushed memtable.
WalRetiredAfterRegistration ==
    [][\A n \in DOMAIN walFiles :
          WalUnlinked(n) =>
              /\ \A mt \in WalOwners(n) : Materialized(mt)
              /\ immutable.wal = n]_vars

\* ------------------------------------------------------------------------
\* A memtable on its own: Insert, Delete and reopening (NewMemTable, which
\* replays the WAL the calls have written).
\* ------------------------------------------------------------------------
KeyBB == Rep(98, 2)
MemKeys == {<<>>, KeyA, KeyBB}
MemValues == {<<>>, Rep(120, 1), Rep(121, 3), TOMBSTONE_VALUE}

\* WriteDelete(key): WriteEntry(WALEntryDelete, key, nil).
DeleteFrame(k) ==
    [crc |-> Checksum(WALEntryDelete, k, <<>>), type |-> WALEntryDelete,
     key |-> k, val |-> <<>>, bytes |-> FrameLen(k, <<>>)]

\* mt.Insert(key, value): the frame, then the accounting and the skip list.
MemTableInsert(k, v) ==
    /\ phase = "memtable"
    /\ hist.nSets < cfg.maxSets
    /\ walFiles' = [walFiles EXCEPT ![memtable.wal] = Append(@, PutFrame(k, v))]
    /\ memtable' = MemInsert(memtable, k, v)
    /\ hist' = [hist EXCEPT !.nSets = @ + 1,
                            !.memOps = @ \cup {IF SLFind(memtable.sl, k).found
                                               THEN "update" ELSE "insert"}]
    /\ UNCHANGED <<sstFiles, manifest, immutable, lsmVars, threadVars,
                   phase, cfg, wm>>

\* mt.Delete(key).
MemTableDelete(k) ==
    /\ phase = "memtable"
    /\ hist.nSets < cfg.maxSets
    /\ walFiles' = [walFiles EXCEPT ![memtable.wal] = Append(@, DeleteFrame(k))]
    /\ memtable' = MemDelete(memtable, k)
    /\ hist' = [hist EXCEPT !.nSets = @ + 1,
                            !.memOps = @ \cup {IF SLFind(memtable.sl, k).found
                                               THEN "delete" ELSE "miss"}]
    /\ UNCHANGED <<sstFiles, manifest, immutable, lsmVars, threadVars,
                   phase, cfg, wm>>

\* NewMemTable on the same WAL path: a new memtable built by ReplayWAL.
MemTableReopen ==
    /\ phase = "memtable"
    /\ hist.nSets > 0
    /\ ~NewMemTableFails(walFiles, memtable.wal)
    /\ memtable' = NewMemTable(walFiles, memtable.wal, memtable.id)
    /\ hist' = [hist EXCEPT !.memOps = @ \cup {"replay"}]
    /\ UNCHANGED <<diskVars, immutable, lsmVars, threadVars, phase, cfg, wm>>

InitMem ==
    /\ cfg = [keys |-> MemKeys, maxSets |-> MemOps, maxCrashes |-> 0,
              setters |-> {1}]
    /\ wm = NoWrite
    /\ walFiles = PutFile(<<>>, 0, <<>>)
    /\ sstFiles = <<>>
    /\ manifest = NoManifest
    /\ memtable = NewMemTable(walFiles, 0, 1)
    /\ immutable = NoMem
    /\ tiers = <<>>
    /\ nextEntryID = 0
    /\ closed = {}
    /\ mergeCh = <<>>
    /\ setPc = [p \in {1} |-> "idle"]
    /\ setKey = [p \in {1} |-> <<>>]
    /\ flushes = {}
    /\ merger = MergerIdle
    /\ phase = "memtable"
    /\ hist = InitHist

NextMem ==
    \/ \E k \in MemKeys, v \in MemValues : MemTableInsert(k, v)
    \/ \E k \in MemKeys : MemTableDelete(k)
    \/ MemTableReopen

SpecMem == InitMem /\ [][NextMem]_vars

\* Sum of len(key)+len(value) over the entries of the ordered map.
RECURSIVE EntryBytes(_)
EntryBytes(sl) ==
    IF sl = <<>> THEN 0
    ELSE BLen(sl[1][1]) + BLen(sl[1][2]) + EntryBytes(Tail(sl))

\* C32 (memtable size accounting): the memtable's size is the sum of
\* len(key)+len(value) over the entries in the ordered map and its count
\* is the number of entries, after every Insert, Delete and WAL replay.
SizeAccounting ==
    /\ memtable.size = EntryBytes(memtable.sl)
    /\ memtable.count = Len(memtable.sl)

\* A memtable that went through a new-key Insert, an overwriting Insert, a
\* Delete of a present key and a replay, and still holds entries.
AccountedAfterEveryCall ==
    /\ phase = "memtable"
    /\ {"insert", "update", "delete", "replay"} \subseteq hist.memOps
    /\ memtable.sl # <<>>
    /\ memtable.size > 0

\* C33 (a read-only memtable is never mutated): in every interleaving of
\* Set callers with rotateMemTable and flushMemTable, the memtable that a
\* Set inserts into, the active one, does not have its read-only flag set,
\* so MemTable.Insert never reaches its "readonly memtable" panic.
NoInsertIntoReadOnly ==
    phase = "running" => ~memtable.readOnly

\* A Set went into the active memtable while a frozen memtable occupies
\* the immutable slot and another caller waits in rotateMemTable.
SetBesideFrozenMemtable ==
    /\ phase = "running"
    /\ immutable.id # 0 /\ immutable.readOnly
    /\ hist.mtSeq > 1 /\ hist.preRot = <<>>
    /\ \E p \in cfg.setters : setPc[p] = "wait"

\* ------------------------------------------------------------------------
\* A store whose merger worker never takes a step (stalled, or stopped):
\* one caller keeps filling and rotating the memtable.
\* ------------------------------------------------------------------------
InitStall == InitStore([keys |-> {KeyA}, maxSets |-> StallSets,
                        maxCrashes |-> 0, setters |-> {1}])

NextStall ==
    \/ \E p \in cfg.setters, k \in cfg.keys : SetInsert(p, k, BigValue)
    \/ \E p \in cfg.setters : Rotate(p)
    \/ \E p \in cfg.setters : RotateWait(p)
    \/ \E f \in flushes : FlushWrite(f)
    \/ \E f \in flushes : FlushAdd(f)
    \/ \E f \in flushes : FlushFinish(f)

SpecStall == InitStall /\ [][NextStall]_vars

\* C34 (writers never block on the merger): the merge channel never holds
\* more than its capacity of 10 batches, and AddSSTable can always take its
\* step, whatever the channel holds and whatever the merger does: the flush
\* that called it goes on to free the immutable slot.
WritersNeverBlock ==
    /\ Len(mergeCh) <= mergeChCap
    /\ \A f \in flushes : (phase = "running" /\ f.pc = "add") => ENABLED FlushAdd(f)

\* With the merger stalled the channel is full, a later AddSSTable dropped
\* its batch, and its flush has completed.
FlushCompletedOnFullChannel ==
    /\ Len(mergeCh) = mergeChCap
    /\ merger.pc = "idle"
    /\ Len(tiers[1]) >= mergeThreshold + mergeChCap
    /\ flushes = {}
    /\ immutable.id = 0

\* ------------------------------------------------------------------------
\* The skip list with its towers: [head, height, nodes].  head is the Tower
\* of sl.Head (MaxHeight pointers), nodes maps a node to [key, val, tower];
\* a pointer is a node, HeadNode or NilNode.
\* ------------------------------------------------------------------------
NilNode == 0
HeadNode == -1
NewSkipList ==
    [head |-> [l \in 1..MaxHeight |-> NilNode], height |-> 1, nodes |-> <<>>]

\* n.Tower[level] (an index past the tower has no value, as in Go).
TowerAt(s, n, level) ==
    IF n = HeadNode THEN s.head[level + 1] ELSE s.nodes[n].tower[level + 1]

\* The inner loop of search: advance at one level while k > next.Key.
RECURSIVE SearchLevel(_, _, _, _)
SearchLevel(s, prev, level, k) ==
    LET next == TowerAt(s, prev, level) IN
    IF next # NilNode /\ BCompare(k, s.nodes[next].key) > 0
    THEN SearchLevel(s, next, level, k)
    ELSE prev

\* The outer loop of search, from level down to 0: the journey.
RECURSIVE SearchDown(_, _, _, _, _)
SearchDown(s, prev, level, k, journey) ==
    IF level < 0 THEN journey
    ELSE LET p == SearchLevel(s, prev, level, k) IN
         SearchDown(s, p, level - 1, k, [journey EXCEPT ![level + 1] = p])

\* SkipList.search: [found, journey]; next is what the level-0 loop left.
search(s, k) ==
    LET journey == SearchDown(s, HeadNode, s.height - 1, k,
                              [l \in 1..MaxHeight |-> NilNode])
        next == IF s.height = 0 THEN NilNode ELSE TowerAt(s, journey[1], 0)
    IN  [found |-> IF next # NilNode /\ s.nodes[next].key = k
                   THEN next ELSE NilNode,
         journey |-> journey]

\* SkipList.Find.
SkipListFind(s, k) ==
    LET found == search(s, k).found IN
    IF found = NilNode THEN NotFound ELSE Found(s.nodes[found].val)

\* An Insert of an existing key that leaves the node as it is.
KeepValue(node, val) == node

\* "found.Value = valCopy".
UpdateValue(node, val) == [node EXCEPT !.val = val]

\* SkipList.Insert with the height randomHeight drew.
SkipListInsert(s, k, val, height) ==
    LET r == search(s, k) IN
    IF r.found # NilNode
    THEN [s EXCEPT !.nodes[r.found] = UpdateValue(@, val)]
    ELSE
    LET nd == CHOOSE n \in 1..(Cardinality(DOMAIN s.nodes) + 1) :
                  n \notin DOMAIN s.nodes
        prev(level) == IF r.journey[level + 1] = NilNode THEN HeadNode
                       ELSE r.journey[level + 1]
        tower == [l \in 1..height |-> TowerAt(s, prev(l - 1), l - 1)]
        linked(n, t) == [l \in 1..Len(t) |->
                            IF l <= height /\ prev(l - 1) = n THEN nd ELSE t[l]]
    IN  [head |-> linked(HeadNode, s.head),
         height |-> IF height > s.height THEN height ELSE s.height,
         nodes |-> [n \in DOMAIN s.nodes \cup {nd} |->
                       IF n = nd THEN [key |-> k, val |-> val, tower |-> tower]
                       ELSE [s.nodes[n] EXCEPT !.tower = linked(n, @)]]]

\* SkipList.shrink: drop the empty top levels.
shrink(s) ==
    LET used == {l \in 1..s.height : s.head[l] # NilNode} IN
    [s EXCEPT !.height = IF used = {} THEN 0
                         ELSE CHOOSE l \in used : \A m \in used : m <= l]

\* SkipList.Delete: [ok, sl].  The unlink loop stops at the first level
\* whose journey node does not point at the node found.
SkipListDelete(s, k) ==
    LET r == search(s, k) IN
    IF r.found = NilNode THEN [ok |-> FALSE, sl |-> s]
    ELSE
    LET points(level) == TowerAt(s, r.journey[level + 1], level) = r.found
        levels == {l \in 0..(s.height - 1) : \A m \in 0..l : points(m)}
        unlinked(n, t) == [l \in 1..Len(t) |->
                              IF (l - 1) \in levels /\ r.journey[l] = n
                              THEN TowerAt(s, r.found, l - 1) ELSE t[l]]
    IN  [ok |-> TRUE,
         sl |-> shrink([s EXCEPT
                  !.head = unlinked(HeadNode, @),
                  !.nodes = [n \in DOMAIN s.nodes \ {r.found} |->
                               [s.nodes[n] EXCEPT !.tower = unlinked(n, @)]]])]

\* NewIterator and Iterator.Next until it returns false: the <<key, value>>
\* pairs along level 0.
RECURSIVE IterateFrom(_, _)
IterateFrom(s, current) ==
    LET next == TowerAt(s, current, 0) IN
    IF next = NilNode THEN <<>>
    ELSE << <<s.nodes[next].key, s.nodes[next].val>> >> \o IterateFrom(s, next)

Iterate(s) == IterateFrom(s, HeadNode)

SkipKeys == {KeyA, KeyB, KeyBB}
SkipValues == {Rep(120, 1), Rep(121, 2)}
SkipHeights == {1, 2, MaxHeight}

\* The skip list under test is memtable.skiplist; memtable.sl is the
\* ordered list the rest of the model keeps, memtable.last what the last
\* call was, what it returned and how many entries it found.
InitSkip ==
    /\ cfg = [keys |-> SkipKeys, maxSets |-> SkipOps, maxCrashes |-> 0,
              setters |-> {1}]
    /\ wm = NoWrite
    /\ walFiles = <<>>
    /\ sstFiles = <<>>
    /\ manifest = NoManifest
    /\ memtable = [skiplist |-> NewSkipList, sl |-> <<>>,
                   last |-> [op |-> "none", key |-> <<>>, present |-> FALSE,
                             ok |-> TRUE, count |-> 0]]
    /\ immutable = NoMem
    /\ tiers = <<>>
    /\ nextEntryID = 0
    /\ closed = {}
    /\ mergeCh = <<>>
    /\ setPc = [p \in {1} |-> "idle"]
    /\ setKey = [p \in {1} |-> <<>>]
    /\ flushes = {}
    /\ merger = MergerIdle
    /\ phase = "skiplist"
    /\ hist = [InitHist EXCEPT !.expected = [k \in SkipKeys |-> NotFound]]

\* sl.Insert(key, val), the new node's height drawn by randomHeight.
SkipInsert(k, val, height) ==
    /\ phase = "skiplist"
    /\ hist.nSets < cfg.maxSets
    /\ memtable' = [skiplist |-> SkipListInsert(memtable.skiplist, k, val, height),
                    sl |-> SLInsert(memtable.sl, k, val),
                    last |-> [op |-> "insert", key |-> k,
                              present |-> hist.expected[k].found, ok |-> TRUE,
                              count |-> Len(Iterate(memtable.skiplist))]]
    /\ hist' = [hist EXCEPT !.expected[k] = Found(val), !.nSets = @ + 1,
                            !.memOps = @ \cup {IF hist.expected[k].found
                                               THEN "update" ELSE "insert"}]
    /\ UNCHANGED <<diskVars, immutable, lsmVars, threadVars, phase, cfg, wm>>

\* sl.Delete(key).
SkipDelete(k) ==
    /\ phase = "skiplist"
    /\ hist.nSets < cfg.maxSets
    /\ LET d == SkipListDelete(memtable.skiplist, k) IN
       memtable' = [skiplist |-> d.sl,
                    sl |-> SLDelete(memtable.sl, k),
                    last |-> [op |-> "delete", key |-> k,
                              present |-> hist.expected[k].found, ok |-> d.ok,
                              count |-> Len(Iterate(memtable.skiplist))]]
    /\ hist' = [hist EXCEPT !.expected[k] = NotFound, !.nSets = @ + 1,
                            !.memOps = @ \cup {IF hist.expected[k].found
                                               THEN "delete" ELSE "miss"}]
    /\ UNCHANGED <<diskVars, immutable, lsmVars, threadVars, phase, cfg, wm>>

NextSkip ==
    \/ \E k \in SkipKeys, val \in SkipValues, height \in SkipHeights :
          SkipInsert(k, val, height)
    \/ \E k \in SkipKeys : SkipDelete(k)

SpecSkip == InitSkip /\ [][NextSkip]_vars

\* C35 (ordered map laws): after any Insert/Delete calls with any drawn
\* heights, level-0 iteration yields exactly the present keys in strictly
\* ascending order; Find returns the last inserted value of every present
\* key and nothing for an absent one; an Insert of an existing key adds no
\* entry; Delete removes one entry and returns true for a present key, and
\* removes nothing and returns false for an absent one.
OrderedMapLaws ==
    phase = "skiplist" =>
        LET it == Iterate(memtable.skiplist)
            last == memtable.last
        IN
        /\ \A i, j \in 1..Len(it) : i < j => BCompare(it[i][1], it[j][1]) < 0
        /\ {it[i][1] : i \in 1..Len(it)} = {k \in SkipKeys : hist.expected[k].found}
        /\ \A k \in SkipKeys : SkipListFind(memtable.skiplist, k) = hist.expected[k]
        /\ \A i \in 1..Len(it) : hist.expected[it[i][1]] = Found(it[i][2])
        /\ last.op = "insert" =>
              Len(it) = last.count + (IF last.present THEN 0 ELSE 1)
        /\ last.op = "delete" =>
              /\ last.ok = last.present
              /\ Len(it) = last.count - (IF last.present THEN 1 ELSE 0)

\* The towers and the ordered list kept by the rest of the model agree.
SkipListIsOrderedList ==
    phase = "skiplist" => Iterate(memtable.skiplist) = memtable.sl

\* A skip list that took a new-key Insert, an overwriting Insert, a Delete
\* of a present key and one of an absent key, still holds an entry and has
\* a node of full height.
SkipListAfterEveryCall ==
    /\ phase = "skiplist"
    /\ {"insert", "update", "delete", "miss"} \subseteq hist.memOps
    /\ Len(Iterate(memtable.skiplist)) >= 1
    /\ memtable.skiplist.height = MaxHeight

\* The number of lines the scan loop of SSTableReader.Get reads before it
\* returns.
RECURSIVE Scanned(_, _)
Scanned(recs, key) ==
    IF recs = <<>> THEN 0
    ELSE LET parts == SplitN2(recs[1].line, Colon) IN
         IF Len(parts) = 2 /\ (parts[1] = key \/ BCompare(parts[1], key) > 0)
         THEN 1
         ELSE 1 + Scanned(Tail(recs), key)

\* C36 (sparse index stride): every SSTable file has one index entry for
\* each of the records at positions 0, 16, 32, ... of its data region, and
\* a Get that passes the range and Bloom checks reads at most 16 records.
SparseIndexStride ==
    \A n \in DOMAIN sstFiles :
        LET file == sstFiles[n]
            blocks == (Len(file.recs) + indexStride - 1) \div indexStride
        IN
        /\ Len(file.index) = blocks
        /\ \A i \in 1..Len(file.index) :
              (i - 1) * indexStride + 1 <= Len(file.recs)
              /\ file.index[i].off = file.recs[(i - 1) * indexStride + 1].off
        /\ \A key \in cfg.keys :
              (/\ BCompare(key, file.minKey) >= 0
               /\ BCompare(key, file.maxKey) <= 0
               /\ MayContain(file, key))
                 => Scanned(IndexBlock(file, key), key) <= indexStride

\* ------------------------------------------------------------------------
\* Concurrent callers with fair scheduling: every caller inside
\* rotateMemTable, the flush goroutine and the merger worker keep taking
\* their steps; a caller in the wait loop polls the slot again and again,
\* so it leaves the loop when the slot is free infinitely often.  No step
\* fails and the process does not crash.
\* ------------------------------------------------------------------------
InitLive == InitStore([keys |-> {KeyA, KeyB}, maxSets |-> LiveSets,
                       maxCrashes |-> 0, setters |-> Setters])

NextLive ==
    \/ \E p \in cfg.setters, k \in cfg.keys, v \in Values : SetInsert(p, k, v)
    \/ \E p \in cfg.setters : Rotate(p)
    \/ \E p \in cfg.setters : RotateWait(p)
    \/ \E f \in flushes : FlushWrite(f)
    \/ \E f \in flushes : FlushAdd(f)
    \/ \E f \in flushes : FlushFinish(f)
    \/ MergerStart
    \/ MergerCommit
    \/ MergerCleanup

\* Where each step can be taken (every one of them changes its caller's or
\* goroutine's position, so these are the ENABLED conditions).
RotateEnabled(p) == phase = "running" /\ setPc[p] = "rotate"
RotateWaitEnabled(p) ==
    phase = "running" /\ setPc[p] = "wait" /\ ~SlotOccupied(immutable)
FlushEnabled(pc) == phase = "running" /\ \E f \in flushes : f.pc = pc
MergerEnabled(pc) ==
    /\ phase = "running"
    /\ merger.pc = pc
    /\ pc = "idle" => mergeCh # <<>>

\* Weak fairness of every step, strong fairness of the wait loop's exit,
\* written out with the conditions above.
Fairness ==
    /\ \A p \in Setters :
          /\ []<>(~RotateEnabled(p)) \/ []<><<Rotate(p)>>_vars
          /\ <>[](~RotateWaitEnabled(p)) \/ []<><<RotateWait(p)>>_vars
    /\ []<>(~FlushEnabled("write")) \/ []<><<\E f \in flushes : FlushWrite(f)>>_vars
    /\ []<>(~FlushEnabled("add")) \/ []<><<\E f \in flushes : FlushAdd(f)>>_vars
    /\ []<>(~FlushEnabled("finish")) \/ []<><<\E f \in flushes : FlushFinish(f)>>_vars
    /\ []<>(~MergerEnabled("idle")) \/ []<><<MergerStart>>_vars
    /\ []<>(~MergerEnabled("commit")) \/ []<><<MergerCommit>>_vars
    /\ []<>(~MergerEnabled("cleanup")) \/ []<><<MergerCleanup>>_vars

SpecLive == InitLive /\ [][NextLive]_vars /\ Fairness

RotateUpdateFails(p) ==
    LET walName == nextEntryID
        newMemtable == NewMemTable(walFiles, walName, hist.mtSeq + 1)
        frozen == [memtable EXCEPT !.readOnly = TRUE]
    IN
    /\ phase = "running"
    /\ IF setPc[p] = "rotate" THEN MemShouldFlush(memtable)
       ELSE setPc[p] = "wait"
    /\ ~SlotOccupied(immutable)
    /\ ~NewMemTableFails(walFiles, walName)
    /\ walFiles' = NewWAL(walFiles, walName)
    /\ immutable' = frozen
    /\ memtable' = ActiveAfterSwap(frozen, newMemtable)
    /\ setPc' = [setPc EXCEPT ![p] = "idle"]
    /\ setKey' = [setKey EXCEPT ![p] = <<>>]
    /\ hist' = [hist EXCEPT !.mtSeq = @ + 1, !.wmErr = @ + 1]
    /\ UNCHANGED <<sstFiles, manifest, lsmVars, flushes, merger, phase,
                   cfg, wm>>

\* One caller on a fresh directory; rotations and flushes may fail.
InitWedge == InitStore([keys |-> {KeyA, KeyB}, maxSets |-> WedgeSets,
                        maxCrashes |-> 0, setters |-> {1}])

NextWedge ==
    \/ \E p \in cfg.setters, k \in cfg.keys, v \in Values : SetInsert(p, k, v)
    \/ \E p \in cfg.setters : Rotate(p)
    \/ \E p \in cfg.setters : RotateWait(p)
    \/ \E p \in cfg.setters : RotateUpdateFails(p)
    \/ \E f \in flushes : FlushWrite(f)
    \/ \E f \in flushes : FlushWriteFails(f)
    \/ \E f \in flushes : FlushAdd(f)
    \/ \E f \in flushes, stage \in {"load", "manifest"} : FlushAddFails(f, stage)
    \/ \E f \in flushes : FlushFinish(f)

SpecWedge == InitWedge /\ [][NextWedge]_vars

\* C38 (a failed step does not wedge the store): a caller in the wait loop
\* of rotateMemTable finds the immutable slot free, or a flush goroutine
\* exists for the memtable in the slot and will free it (nothing else
\* clears the slot, and the loop has no other exit).
WaitingCallerHasFlusher ==
    phase = "running" =>
        \A p \in cfg.setters :
            setPc[p] = "wait" =>
                \/ ~SlotOccupied(immutable)
                \/ \E f \in flushes : f.mt.id = immutable.id

\* C39 (a memtable is frozen only when it is full): at every step of
\* rotateMemTable that moves the active memtable to the immutable slot,
\* that memtable's accounted size is at least the threshold.
FrozenOnlyWhenFull ==
    [][RotationStep => (immutable'.id = memtable.id /\ MemShouldFlush(memtable))]_vars

\* ------------------------------------------------------------------------
\* One caller on a fresh directory; the store is closed and opened again.
\* ------------------------------------------------------------------------
InitClose == InitStore([keys |-> {KeyA, KeyB}, maxSets |-> CloseSets,
                        maxCrashes |-> MaxCrashes, setters |-> {1}])

NextClose ==
    \/ \E p \in cfg.setters, k \in cfg.keys, v \in Values : SetInsert(p, k, v)
    \/ \E p \in cfg.setters : Rotate(p)
    \/ \E p \in cfg.setters : RotateWait(p)
    \/ \E f \in flushes : FlushWrite(f)
    \/ \E f \in flushes : FlushAdd(f)
    \/ \E f \in flushes : FlushFinish(f)
    \/ MergerStart
    \/ MergerCommit
    \/ MergerCleanup
    \/ CloseInitState
    \/ OpenStore

SpecClose == InitClose /\ [][NextClose]_vars

\* C40 (clean restart preserves the store): after Close and NewV6Store the
\* WAL of the memtable that was active at Close is still in the directory
\* when InitState returns and is the one the new memtable replays, and Get
\* returns for every key what it returned just before Close.
CleanRestartPreserves ==
    (hist.fresh /\ hist.preClose # <<>>) =>
        LET c == hist.preClose IN
        /\ phase = "init" => c.memtable.wal \in DOMAIN walFiles
        /\ phase = "running" =>
              /\ memtable.wal = c.memtable.wal
              /\ \A k \in cfg.keys :
                    StoreGet(k) = StoreGetAt(c.memtable, c.immutable, c.tiers,
                                             c.sstFiles, c.closed, k)

====
